---- MODULE Spec2Model ----
(***************************************************************************)
(* A model of the py-polars Series / DataFrame wrappers.                   *)
(*                                                                         *)
(* A Series is a Python object holding a reference `_s` to a PySeries, the *)
(* native column.  Several Series may hold the same PySeries.  The native  *)
(* kernels are modelled by the py_* operators; the Python methods by the   *)
(* actions and the other operators.                                        *)
(***************************************************************************)
EXTENDS Integers, Sequences, FiniteSets, TLC

\* ------------------------------------------------------------------ bounds
MaxLen == 3          \* longest Series the model builds
MaxChunks == 3       \* most chunks of a Series the model builds
MaxAttempts == 3     \* append attempts the model follows within one call

\* ------------------------------------------------------------- the heap
VARIABLES
    heap,       \* PySeries objects: cell -> [name, dtype, chunks]
    ref,        \* Series objects: handle -> the cell its _s refers to
    borrowed,   \* cell -> TRUE while its storage is borrowed elsewhere
    call,       \* the Series.append call in progress
    last,       \* the last Series method called: receiver, its state before, ...
    pyarrow,    \* whether the optional pyarrow module was imported
    df,         \* a DataFrame: the columns of its PyDataFrame, in order
    ret,        \* the DataFrame the last DataFrame method returned, if any
    dfErr,      \* the error the last DataFrame method raised, or "none"
    idx_type,   \* the index type of the build: get_idx_type()
    arg         \* the argument of the last Series.__getitem__ or operator

vars == <<heap, ref, borrowed, call, last, pyarrow, df, ret, dfErr,
          idx_type, arg>>

seriesVars == <<heap, ref, borrowed, call, last, pyarrow>>
frameVars == <<df, ret, dfErr>>
argVars == <<idx_type, arg>>

\* what the steps of Series.append leave alone
notAppend == <<last, pyarrow, frameVars, argVars>>

Handles == {"a", "b"}
Cells == {1, 2}
Null == -1

RECURSIVE Flatten(_)
Flatten(chunks) ==
    IF chunks = <<>> THEN <<>> ELSE Head(chunks) \o Flatten(Tail(chunks))

\* PySeries.to_list / len / n_chunks / name
to_list(s) == Flatten(s.chunks)
len(s) == Len(to_list(s))
n_chunks(s) == Len(s.chunks)

\* PySeries.append: the chunks of other are added to those of self
py_append(s, o) == [s EXCEPT !.chunks = s.chunks \o o.chunks]

\* PySeries.extend: the values of other are written behind the last chunk of
\* self, no chunk is added
py_extend(s, o) ==
    LET n == Len(s.chunks)
    IN  [s EXCEPT !.chunks = [s.chunks EXCEPT ![n] = s.chunks[n] \o to_list(o)]]

\* PySeries.clone: a new PySeries with the same name, dtype and chunks
py_clone(s) == s

\* PySeries.rename
py_rename(s, name) == [s EXCEPT !.name = name]

\* What a call self._s.append(other._s) / self._s.extend(other._s) does before
\* it touches any value: the borrow of the receiver's storage is refused when
\* that storage is borrowed elsewhere or when `other` is the same PySeries; a
\* column of another dtype is refused by the kernel.
AppendOutcome(selfCell, otherAliases, s, o) ==
    IF borrowed[selfCell] \/ otherAliases THEN "Already mutably borrowed"
    ELSE IF s.dtype # o.dtype THEN "SchemaMisMatch"
    ELSE "ok"

\* ---------------------------------------------------------- Series.append
NoSeries == [name |-> "", dtype |-> "none", chunks |-> <<>>]

NoArg == [kind |-> "none", dtype |-> "none", vals |-> <<>>, item |-> 0]

NoOp ==
    [op |-> "none", recv |-> "a", pre |-> NoSeries, views |-> {},
     raised |-> "none", result |-> <<>>]

IdleCall ==
    [pc |-> "idle", self |-> "a", other |-> "a", append_chunks |-> TRUE,
     attempts |-> 0, cloned |-> FALSE, clone |-> NoSeries, err |-> "ok",
     first_err |-> "ok", raised |-> "none", old_self |-> <<>>, old_other |-> <<>>]

\* the PySeries the current frame passes as `other`
OtherOf(c) == IF c.cloned THEN c.clone ELSE heap[ref[c.other]]

\* a.append(b, append_chunks): the caller enters the method
AppendCall(h, o, ac) ==
    /\ call.pc = "idle"
    /\ len(heap[ref[h]]) + len(heap[ref[o]]) <= MaxLen
    /\ n_chunks(heap[ref[h]]) + n_chunks(heap[ref[o]]) <= MaxChunks
    /\ call' = [IdleCall EXCEPT !.pc = "try", !.self = h, !.other = o,
                                !.append_chunks = ac,
                                !.old_self = to_list(heap[ref[h]]),
                                !.old_other = to_list(heap[ref[o]])]
    /\ UNCHANGED <<heap, ref, borrowed, notAppend>>

\* the try block: self._s.append(other._s) or self._s.extend(other._s)
AppendTry ==
    /\ call.pc = "try"
    /\ LET sc  == ref[call.self]
           o   == OtherOf(call)
           out == AppendOutcome(sc, ~call.cloned /\ ref[call.other] = sc,
                                heap[sc], o)
       IN  IF out = "ok"
           THEN /\ heap' = [heap EXCEPT ![sc] =
                               IF call.append_chunks THEN py_append(@, o)
                                                     ELSE py_extend(@, o)]
                /\ call' = [call EXCEPT !.pc = "returned",
                                        !.attempts = @ + 1, !.err = "ok"]
           ELSE /\ heap' = heap
                /\ call' = [call EXCEPT !.pc = "except",
                                        !.attempts = @ + 1, !.err = out,
                                        !.first_err =
                                            IF call.attempts = 0 THEN out ELSE @]
    /\ UNCHANGED <<ref, borrowed, notAppend>>

\* the mutant of the handler: retries after any failure
AppendExcept_AnyError ==
    /\ call.pc = "except"
    /\ call.attempts < MaxAttempts
    /\ call' = [call EXCEPT !.pc = "try", !.cloned = TRUE,
                            !.clone = py_clone(OtherOf(call))]
    /\ UNCHANGED <<heap, ref, borrowed, notAppend>>

\* the except block: on "Already mutably borrowed" the method calls itself
\* with a clone of other; any other error is raised again
AppendExcept ==
    /\ call.pc = "except"
    /\ IF call.err = "Already mutably borrowed"
       THEN /\ call.attempts < MaxAttempts
            /\ call' = [call EXCEPT !.pc = "try", !.cloned = TRUE,
                                    !.clone = py_clone(OtherOf(call))]
       ELSE call' = [call EXCEPT !.pc = "raised", !.raised = call.err]
    /\ UNCHANGED <<heap, ref, borrowed, notAppend>>

\* the caller goes on after the return or the exception
AppendReturn ==
    /\ call.pc \in {"returned", "raised"}
    /\ call' = IdleCall
    /\ UNCHANGED <<heap, ref, borrowed, notAppend>>

\* Series(name, values) with values a Series: series_to_pyseries renames the
\* given Series in place and hands out its PySeries
SeriesFromSeries(h, src, name) ==
    /\ call.pc = "idle"
    /\ heap' = [heap EXCEPT ![ref[src]] = py_rename(@, name)]
    /\ ref' = [ref EXCEPT ![h] = ref[src]]
    /\ UNCHANGED <<borrowed, call, notAppend>>

\* some other holder borrows, or gives back, the storage of a PySeries
BorrowElsewhere(c) ==
    /\ ~borrowed[c]
    /\ borrowed' = [borrowed EXCEPT ![c] = TRUE]
    /\ UNCHANGED <<heap, ref, call, notAppend>>

ReleaseElsewhere(c) ==
    /\ borrowed[c]
    /\ borrowed' = [borrowed EXCEPT ![c] = FALSE]
    /\ UNCHANGED <<heap, ref, call, notAppend>>

InitChunks == { <<<<>>>>, <<<<1>>>>, <<<<1, 2>>>>, <<<<1>>, <<2>>>> }

Init ==
    /\ \E ca \in InitChunks, cb \in InitChunks, db \in {"Int64", "Utf8"} :
         heap = [c \in Cells |->
                   IF c = 1 THEN [name |-> "a", dtype |-> "Int64", chunks |-> ca]
                            ELSE [name |-> "b", dtype |-> db, chunks |-> cb]]
    /\ ref = [h \in Handles |-> IF h = "a" THEN 1 ELSE 2]
    /\ borrowed = [c \in Cells |-> FALSE]
    /\ call = IdleCall
    /\ last = NoOp
    /\ pyarrow = TRUE
    /\ df = <<>> /\ ret = <<>> /\ dfErr = "none"
    /\ idx_type = "UInt32" /\ arg = NoArg

Next ==
    \/ \E h \in Handles, o \in Handles, ac \in BOOLEAN : AppendCall(h, o, ac)
    \/ AppendTry
    \/ AppendExcept
    \/ AppendReturn
    \/ \E h \in Handles, src \in Handles : SeriesFromSeries(h, src, h)
    \/ \E c \in Cells : BorrowElsewhere(c)
    \/ \E c \in Cells : ReleaseElsewhere(c)

Spec == Init /\ [][Next]_vars

\* ------------------------------------------------------------ the claims
AMB == "Already mutably borrowed"

\* C1 (as amended): an attempt is retried if and only if it failed with
\* "Already mutably borrowed", and the retry runs against a clone of other;
\* when an attempt succeeds the caller sees no error and the receiver holds
\* its old values followed by other's; any other failure is raised to the
\* caller unchanged, with no further attempt.
C1_RetryIffBorrowed ==
    /\ (call.pc = "try" /\ call.attempts >= 1) =>
          /\ call.err = AMB
          /\ call.cloned
          /\ to_list(call.clone) = call.old_other
    /\ call.pc = "returned" =>
          /\ call.raised = "none"
          /\ to_list(heap[ref[call.self]]) = call.old_self \o call.old_other
    /\ call.pc = "raised" =>
          /\ call.raised = call.err
          /\ call.err \notin {AMB, "ok"}
          /\ to_list(heap[ref[call.self]]) = call.old_self

\* C1, witness: a call that was refused once and succeeded against the clone
C1_Witness ==
    /\ call.pc = "returned"
    /\ call.attempts = 2
    /\ call.first_err = AMB
    /\ call.old_other # <<>>

\* C1 as stated: once the first attempt has failed with "Already mutably
\* borrowed", the caller sees no error and the receiver ends as its old
\* values followed by other's.
C1_Original ==
    (call.first_err = AMB /\ call.pc \in {"returned", "raised"}) =>
        /\ call.pc = "returned"
        /\ to_list(heap[ref[call.self]]) = call.old_self \o call.old_other

\* C2 as stated: a call to append makes at most two append attempts.
C2_AtMostTwoAttempts == call.attempts <= 2

\* C3 as stated: after a.append(b) returns, a holds its old values followed
\* by b's, and b holds the values it held before.
C3_AppendKeepsOther ==
    (call.pc = "returned" /\ call.self # call.other) =>
        /\ to_list(heap[ref[call.self]]) = call.old_self \o call.old_other
        /\ to_list(heap[ref[call.other]]) = call.old_other

\* ------------------------------------------------- Series methods (SpecOps)
\* what the Series methods below leave alone
notOps == <<borrowed, call, pyarrow, frameVars, argVars>>

Names == {"x"}
Values == {1, 2, Null}

HasNull(seq) == \E i \in 1..Len(seq) : seq[i] = Null

\* Series.has_validity: a validity bitmap is there when a value is null
has_validity(s) == HasNull(to_list(s))

is_numeric(s) == s.dtype \in {"Int64", "Float64"}
is_datelike(s) == s.dtype \in {"Date", "Datetime", "Duration", "Time"}
is_float(s) == s.dtype \in {"Float32", "Float64"}

\* dtype_to_ctype is defined for the numeric and the datelike dtypes
HasCType(dtype) ==
    dtype \in {"Int64", "Float64", "Date", "Datetime", "Duration", "Time"}

RECURSIVE Insert(_, _)
Insert(x, seq) ==
    IF seq = <<>> THEN <<x>>
    ELSE IF x <= Head(seq) THEN <<x>> \o seq
    ELSE <<Head(seq)>> \o Insert(x, Tail(seq))

RECURSIVE SortAsc(_)
SortAsc(seq) == IF seq = <<>> THEN <<>> ELSE Insert(Head(seq), SortAsc(Tail(seq)))

Reverse(seq) == [i \in 1..Len(seq) |-> seq[Len(seq) + 1 - i]]

\* PySeries.sort: a new PySeries of one chunk, nulls first (last when reversed)
py_sort(s, reverse) ==
    LET sorted == SortAsc(to_list(s))
    IN  [s EXCEPT !.chunks = << IF reverse THEN Reverse(sorted) ELSE sorted >>]

\* PySeries.rechunk: all chunks in one
py_rechunk(s) == [s EXCEPT !.chunks = << to_list(s) >>]

\* PySeries.shrink_to_fit: capacity is given back, nothing a caller reads changes
py_shrink_to_fit(s) == s

\* PySeries.cast: chunk by chunk, a null stays null
py_cast(s, dtype) == [s EXCEPT !.dtype = dtype]

RECURSIVE Keep(_, _)
Keep(seq, mask) ==
    IF seq = <<>> THEN <<>>
    ELSE (IF Head(mask) THEN <<Head(seq)>> ELSE <<>>) \o Keep(Tail(seq), Tail(mask))

RECURSIVE FilterChunks(_, _)
FilterChunks(chunks, mask) ==
    IF chunks = <<>> THEN <<>>
    ELSE LET n == Len(Head(chunks))
         IN  << Keep(Head(chunks), SubSeq(mask, 1, n)) >>
             \o FilterChunks(Tail(chunks), SubSeq(mask, n + 1, Len(mask)))

\* PySeries.filter: chunk by chunk, keeping the positions where the mask is true
py_filter(s, mask) == [s EXCEPT !.chunks = FilterChunks(s.chunks, mask)]

\* PySeries.drop_nulls
py_drop_nulls(s) ==
    py_filter(s, [i \in 1..len(s) |-> to_list(s)[i] # Null])

\* PySeries.add of two columns of one length: null where either is null
py_add(s, o) ==
    LET x == to_list(s)
        y == to_list(o)
    IN  [s EXCEPT !.chunks =
            << [i \in 1..Len(x) |->
                   IF x[i] = Null \/ y[i] = Null THEN Null ELSE x[i] + y[i]] >>]

\* PySeries.eq_<dtype> with a scalar
py_eq(s, v) ==
    [name |-> s.name, dtype |-> "Boolean",
     chunks |-> << [i \in 1..len(s) |->
                      IF to_list(s)[i] = Null THEN Null
                      ELSE IF to_list(s)[i] = v THEN 1 ELSE 0] >>]

\* the cell a Series gets when its _s is bound to a new PySeries
FreshCell(h) ==
    IF \E g \in Handles \ {h} : ref[g] = ref[h]
    THEN CHOOSE c \in Cells : \A g \in Handles : ref[g] # c
    ELSE ref[h]

\* what a request for a raw view finds: the chunks and the validity of the
\* PySeries whose single pointer is asked for
ViewRec(s, via) ==
    [n_chunks |-> n_chunks(s), validity |-> has_validity(s), via |-> via]

\* Series.view(ignore_nulls): the assertion, then dtype_to_ctype, then the
\* pointer
ViewErr(s, ignore_nulls) ==
    IF ~ignore_nulls /\ has_validity(s) THEN "AssertionError"
    ELSE IF ~HasCType(s.dtype) THEN "NotImplementedError"
    ELSE "none"

ViewsOf(s, ignore_nulls, via) ==
    IF ViewErr(s, ignore_nulls) = "none" THEN {ViewRec(s, via)} ELSE {}

Did(op, h, views, raised, result) ==
    [op |-> op, recv |-> h, pre |-> heap[ref[h]], views |-> views,
     raised |-> raised, result |-> result]

\* Series.alias(name)
Alias(h, name) ==
    /\ last' = Did("alias", h, {}, "none",
                   << py_rename(py_clone(heap[ref[h]]), name) >>)
    /\ UNCHANGED <<heap, ref, notOps>>

\* Series.rename(name, in_place)
Rename(h, name, in_place) ==
    /\ IF in_place
       THEN /\ heap' = [heap EXCEPT ![ref[h]] = py_rename(@, name)]
            /\ last' = Did("rename_in_place", h, {}, "none", <<>>)
       ELSE /\ heap' = heap
            /\ last' = Did("rename", h, {}, "none",
                           << py_rename(py_clone(heap[ref[h]]), name) >>)
    /\ UNCHANGED <<ref, notOps>>

\* Series.sort(reverse, in_place)
Sort(h, reverse, in_place) ==
    /\ IF in_place
       THEN LET c == FreshCell(h)
            IN  /\ heap' = [heap EXCEPT ![c] = py_sort(heap[ref[h]], reverse)]
                /\ ref' = [ref EXCEPT ![h] = c]
                /\ last' = Did("sort_in_place", h, {}, "none", <<>>)
       ELSE /\ UNCHANGED <<heap, ref>>
            /\ last' = Did("sort", h, {}, "none",
                           << py_sort(heap[ref[h]], reverse) >>)
    /\ UNCHANGED notOps

\* Series.cast(dtype)
Cast(h, dtype) ==
    /\ last' = Did("cast", h, {}, "none", << py_cast(heap[ref[h]], dtype) >>)
    /\ UNCHANGED <<heap, ref, notOps>>

\* Series.filter(predicate)
Filter(h, mask) ==
    /\ last' = Did("filter", h, {}, "none", << py_filter(heap[ref[h]], mask) >>)
    /\ UNCHANGED <<heap, ref, notOps>>

\* Series.__add__(other) with other a Series of the same length
Add(h, g) ==
    /\ len(heap[ref[h]]) = len(heap[ref[g]])
    /\ last' = Did("add", h, {}, "none",
                   << py_add(heap[ref[h]], heap[ref[g]]) >>)
    /\ UNCHANGED <<heap, ref, notOps>>

\* Series.__eq__(other) with other a scalar
Eq(h, v) ==
    /\ last' = Did("eq", h, {}, "none", << py_eq(heap[ref[h]], v) >>)
    /\ UNCHANGED <<heap, ref, notOps>>

\* Series.rechunk(in_place)
Rechunk_SameChunks(h, in_place) ==
    /\ IF in_place
       THEN /\ heap' = [heap EXCEPT ![ref[h]] = py_rechunk(@)]
            /\ last' = Did("rechunk_in_place", h, {}, "none", <<>>)
       ELSE /\ heap' = heap
            /\ last' = Did("rechunk", h, {}, "none", << heap[ref[h]] >>)
    /\ UNCHANGED <<ref, notOps>>
Rechunk(h, in_place) ==
    /\ IF in_place
       THEN /\ heap' = [heap EXCEPT ![ref[h]] = py_rechunk(@)]
            /\ last' = Did("rechunk_in_place", h, {}, "none", <<>>)
       ELSE /\ heap' = heap
            /\ last' = Did("rechunk", h, {}, "none",
                           << py_rechunk(heap[ref[h]]) >>)
    /\ UNCHANGED <<ref, notOps>>

\* Series.shrink_to_fit(in_place)
ShrinkToFit(h, in_place) ==
    /\ IF in_place
       THEN /\ heap' = [heap EXCEPT ![ref[h]] = py_shrink_to_fit(@)]
            /\ last' = Did("shrink_to_fit_in_place", h, {}, "none", <<>>)
       ELSE /\ heap' = heap
            /\ last' = Did("shrink_to_fit", h, {}, "none",
                           << py_shrink_to_fit(py_clone(heap[ref[h]])) >>)
    /\ UNCHANGED <<ref, notOps>>

\* Series.view(ignore_nulls)
View(h, ignore_nulls) ==
    /\ last' = Did(IF ignore_nulls THEN "view_ignore_nulls" ELSE "view", h,
                   ViewsOf(heap[ref[h]], ignore_nulls,
                           IF ignore_nulls THEN "view_ignore_nulls" ELSE "view"),
                   ViewErr(heap[ref[h]], ignore_nulls), <<>>)
    /\ UNCHANGED <<heap, ref, notOps>>

\* Series.to_numpy(): through pyarrow when it is there and the dtype is not
\* datelike; else a view when there is no validity bitmap, else a copy
ToNumpy(h) ==
    /\ LET s == heap[ref[h]]
       IN  last' =
             IF pyarrow /\ ~is_datelike(s) THEN Did("to_numpy", h, {}, "none", <<>>)
             ELSE IF ~has_validity(s)
                  THEN Did("to_numpy", h, ViewsOf(s, TRUE, "to_numpy"),
                           ViewErr(s, TRUE), <<>>)
                  ELSE Did("to_numpy", h, {}, "none", <<>>)
    /\ UNCHANGED <<heap, ref, notOps>>

\* Series.__array_ufunc__(ufunc, "__call__", self) and (..., self, other):
\* the receiver is rechunked in place when it has several chunks, then a view
\* is taken of every Series among the inputs
ArrayUfunc(h, others) ==
    /\ heap' = [heap EXCEPT ![ref[h]] =
                   IF n_chunks(@) > 1 THEN py_rechunk(@) ELSE @]
    /\ LET inputs == {h} \cup others
           bad == {g \in inputs : ViewErr(heap'[ref[g]], TRUE) # "none"}
       IN  last' = [Did("array_ufunc", h,
                        UNION {ViewsOf(heap'[ref[g]], TRUE, "array_ufunc") :
                                  g \in inputs},
                        IF bad = {} THEN "none" ELSE "NotImplementedError", <<>>)
                    EXCEPT !.pre = heap[ref[h]]]
    /\ UNCHANGED <<ref, notOps>>

\* Series.std(ddof) and Series.var(ddof): None when not numeric, an expression
\* when ddof = 1, else numpy on a view of drop_nulls()
StdVar(h, f, ddof) ==
    /\ LET s == heap[ref[h]]
           d == py_drop_nulls(s)
       IN  last' =
             IF ~is_numeric(s) THEN Did(f, h, {}, "none", <<>>)
             ELSE IF ddof = 1 THEN Did(f, h, {}, "none", <<>>)
             ELSE Did(f, h, ViewsOf(d, FALSE, f), ViewErr(d, FALSE), <<>>)
    /\ UNCHANGED <<heap, ref, notOps>>

Masks(n) == [1..n -> BOOLEAN]

OpsChunks == { <<<<2, 1>>>>, <<<<Null, 1>>>>, <<<<2>>, <<1>>>> }

InitOps ==
    /\ \E ca \in OpsChunks, cb \in OpsChunks, da \in {"Int64", "Date"},
          db \in {"Int64", "Utf8"} :
         heap = [c \in Cells |->
                   IF c = 1 THEN [name |-> "a", dtype |-> da, chunks |-> ca]
                            ELSE [name |-> "b", dtype |-> db, chunks |-> cb]]
    /\ ref = [h \in Handles |-> IF h = "a" THEN 1 ELSE 2]
    /\ borrowed = [c \in Cells |-> FALSE]
    /\ call = IdleCall
    /\ last = NoOp
    /\ pyarrow \in BOOLEAN
    /\ df = <<>> /\ ret = <<>> /\ dfErr = "none"
    /\ idx_type = "UInt32" /\ arg = NoArg

NextOps ==
    \/ \E h \in Handles, n \in Names : Alias(h, n)
    \/ \E h \in Handles, n \in Names, ip \in BOOLEAN : Rename(h, n, ip)
    \/ \E h \in Handles, r \in BOOLEAN, ip \in BOOLEAN : Sort(h, r, ip)
    \/ \E h \in Handles, d \in {"Int64", "Float64"} : Cast(h, d)
    \/ \E h \in Handles : \E m \in Masks(len(heap[ref[h]])) : Filter(h, m)
    \/ \E h \in Handles, g \in Handles : Add(h, g)
    \/ \E h \in Handles, v \in {1, 2} : Eq(h, v)
    \/ \E h \in Handles, ip \in BOOLEAN : Rechunk(h, ip)
    \/ \E h \in Handles, ip \in BOOLEAN : ShrinkToFit(h, ip)
    \/ \E h \in Handles, ig \in BOOLEAN : View(h, ig)
    \/ \E h \in Handles : ToNumpy(h)
    \/ \E h \in Handles, o \in SUBSET Handles : ArrayUfunc(h, o)
    \/ \E h \in Handles, f \in {"std", "var"}, ddof \in {0, 1} : StdVar(h, f, ddof)

SpecOps == InitOps /\ [][NextOps]_vars

\* C4 as stated: only rename(in_place), set_at_idx, append/extend,
\* rechunk(in_place) and shrink_to_fit(in_place) change a Series; after any
\* other method the receiver has the name, values and chunks it had before.
\* (sort(in_place=True), an opt-in of the caller like the named ones, is not
\* held against the claim.)
NamedMutators ==
    {"rename_in_place", "set_at_idx", "append", "rechunk_in_place",
     "shrink_to_fit_in_place"}

C4_OnlyNamedMutatorsChange ==
    (last.op \notin {"none", "sort_in_place"} /\ last.op \notin NamedMutators) =>
        heap[ref[last.recv]] = last.pre

\* C6 as stated: Series.view() takes no view of a Series with a validity
\* bitmap, and whenever to_numpy, __array_ufunc__, std or var take a raw
\* single-pointer view, the Series viewed has exactly one chunk and no
\* validity bitmap.  (view(ignore_nulls=True) called by the user is not held
\* against the claim.)
InternalViewPaths == {"to_numpy", "array_ufunc", "std", "var"}

C6_ViewsSingleChunkNoNulls ==
    \A v \in last.views :
        /\ v.via = "view" => ~v.validity
        /\ v.via \in InternalViewPaths => (v.n_chunks = 1 /\ ~v.validity)

\* ------------------------------------------------------ DataFrame (SpecFrame)
MaxCols == 2         \* most columns of a table the model builds
MaxRows == 2         \* most rows of a table the model builds

ColNames == {"a", "b"}
CellValues == {1, 2}

SeqsUpTo(S, n) == UNION {[1..k -> S] : k \in 0..n}

\* the Series a caller may pass: a name and at most MaxRows values
ColSeries == [name : ColNames, vals : SeqsUpTo(CellValues, MaxRows)]

width(t) == Len(t)
height(t) == IF t = <<>> THEN 0 ELSE Len(t[1].vals)
columns(t) == [i \in 1..Len(t) |-> t[i].name]

\* the position of the first column called name, 0 when there is none
RECURSIVE FindIdx(_, _, _)
FindIdx(t, name, i) ==
    IF i > Len(t) THEN 0
    ELSE IF t[i].name = name THEN i
    ELSE FindIdx(t, name, i + 1)

\* PyDataFrame(columns): columns of different lengths are refused
py_new_err(cols) ==
    IF \E i, j \in 1..Len(cols) : Len(cols[i].vals) # Len(cols[j].vals)
    THEN "ShapeMisMatch" ELSE "none"

\* PyDataFrame.hstack: the columns are added behind the others; a column of
\* another length is refused
py_hstack_err(t, cols) ==
    IF \E i \in 1..Len(cols) : t # <<>> /\ Len(cols[i].vals) # height(t)
    THEN "ShapeMisMatch" ELSE "none"
py_hstack(t, cols) == t \o cols

\* PyDataFrame.vstack: the rows of the other table are added to every column;
\* a table of another width or with other column names is refused
py_vstack_err(t, u) ==
    IF width(t) # width(u) \/ columns(t) # columns(u)
    THEN "ShapeMisMatch" ELSE "none"
py_vstack(t, u) == [i \in 1..Len(t) |-> [t[i] EXCEPT !.vals = @ \o u[i].vals]]

\* PyDataFrame.replace_at_idx: the column at the position is replaced; a
\* position outside the table or a column of another length is refused
py_replace_at_idx_err(t, index, col) ==
    IF index < 0 \/ index >= width(t) THEN "OutOfBounds"
    ELSE IF Len(col.vals) # height(t) THEN "ShapeMisMatch"
    ELSE "none"
py_replace_at_idx(t, index, col) == [t EXCEPT ![index + 1] = col]

\* PyDataFrame.replace: replace_at_idx at the position of the named column
py_replace_err(t, name, col) ==
    IF FindIdx(t, name, 1) = 0 THEN "NotFound"
    ELSE py_replace_at_idx_err(t, FindIdx(t, name, 1) - 1, col)
py_replace(t, name, col) == py_replace_at_idx(t, FindIdx(t, name, 1) - 1, col)

\* PyDataFrame.drop / drop_in_place: the table without the named column
RemoveAt(t, i) == [j \in 1..(Len(t) - 1) |-> IF j < i THEN t[j] ELSE t[j + 1]]
py_drop_err(t, name) == IF FindIdx(t, name, 1) = 0 THEN "NotFound" ELSE "none"
py_drop(t, name) == RemoveAt(t, FindIdx(t, name, 1))

\* Series.__setitem__(rows, value) of the selected column: value is written at
\* the given rows
SetRows(col, rows, value) ==
    [col EXCEPT !.vals = [i \in 1..Len(col.vals) |->
                            IF (i - 1) \in rows THEN value ELSE col.vals[i]]]

\* the outcome of a mutating DataFrame method: the table is replaced when the
\* kernel accepts the call, and kept when it raises
FrameStep(err, t) ==
    /\ dfErr' = err
    /\ df' = IF err = "none" THEN t ELSE df
    /\ ret' = <<>>
    /\ UNCHANGED <<seriesVars, argVars>>

\* DataFrame(data): one column per key of the dict
DataFrameNew(cols) ==
    /\ Len(cols) <= MaxCols
    /\ \A i, j \in 1..Len(cols) : i # j => cols[i].name # cols[j].name
    /\ FrameStep(py_new_err(cols), cols)

\* DataFrame.hstack(columns)
HStack(cols) ==
    /\ width(df) + Len(cols) <= MaxCols
    /\ FrameStep(py_hstack_err(df, cols), py_hstack(df, cols))

\* DataFrame.vstack(df) with a table of the same columns
VStack(u) ==
    /\ height(df) + height(u) <= MaxRows
    /\ FrameStep(py_vstack_err(df, u), py_vstack(df, u))

\* DataFrame.replace(column, new_col)
Replace(name, col) ==
    /\ FrameStep(py_replace_err(df, name, col), py_replace(df, name, col))

\* DataFrame.replace_at_idx(index, series)
ReplaceAtIdx(index, col) ==
    /\ FrameStep(py_replace_at_idx_err(df, index, col),
                 py_replace_at_idx(df, index, col))

\* DataFrame.drop(name): a new table is returned
Drop(name) ==
    /\ dfErr' = py_drop_err(df, name)
    /\ ret' = IF dfErr' = "none" THEN py_drop(df, name) ELSE <<>>
    /\ df' = df
    /\ UNCHANGED <<seriesVars, argVars>>

\* DataFrame.drop_in_place(name)
DropInPlace(name) ==
    /\ FrameStep(py_drop_err(df, name), py_drop(df, name))

\* df[key] = value with key a column name: Series(key, value) is hstacked
SetItemName(key, value) ==
    /\ width(df) + 1 <= MaxCols
    /\ LET cols == << [value EXCEPT !.name = key] >>
       IN  FrameStep(py_hstack_err(df, cols), py_hstack(df, cols))

\* df[key] = value with key a column position
SetItemIdx(key, value) ==
    /\ FrameStep(py_replace_at_idx_err(df, key, value),
                 py_replace_at_idx(df, key, value))

\* df[rows, col] = value with col a column position: the selected column is
\* changed through Series.__setitem__ and stored with replace_at_idx(0, s)
SetItemCellIdx(rows, col, value) ==
    /\ col \in 0..(width(df) - 1)
    /\ LET s == SetRows(df[col + 1], rows, value)
       IN  FrameStep(py_replace_at_idx_err(df, 0, s), py_replace_at_idx(df, 0, s))

\* df[rows, col] = value with col a column name: stored with replace(col, s)
SetItemCellName(rows, col, value) ==
    /\ FindIdx(df, col, 1) # 0
    /\ LET s == SetRows(df[FindIdx(df, col, 1)], rows, value)
       IN  FrameStep(py_replace_err(df, col, s), py_replace(df, col, s))

\* a slice object: start, stop and step, each None or an integer
NoneV == [none |-> TRUE, v |-> 0]
IntV(v) == [none |-> FALSE, v |-> v]
Slice(start, stop, step) == [start |-> start, stop |-> stop, step |-> step]

\* getattr(item, "end", False): a slice has start, stop and step, and no end
slice_end(item) == FALSE

\* PyDataFrame.slice(offset, length): the rows from offset on, length of them
\* at most; a negative offset or length is refused
py_slice_err(t, offset, length) ==
    IF offset < 0 \/ length < 0 THEN "OverflowError" ELSE "none"
py_slice(t, offset, length) ==
    [i \in 1..Len(t) |->
        [t[i] EXCEPT !.vals = SubSeq(@, offset + 1,
                                     IF offset + length < Len(@) THEN offset + length
                                     ELSE Len(@))]]

\* df[item] with item a slice of rows
getitem_slice_err(t, item) ==
    IF slice_end(item) THEN "ValueError"
    ELSE LET start == IF item.start.none THEN 0 ELSE item.start.v
             stop == IF item.stop.none THEN height(t) ELSE item.stop.v
         IN  py_slice_err(t, start, stop - start)
getitem_slice(t, item) ==
    LET start == IF item.start.none THEN 0 ELSE item.start.v
        stop == IF item.stop.none THEN height(t) ELSE item.stop.v
    IN  py_slice(t, start, stop - start)

GetItemSlice(item) ==
    /\ df # <<>>
    /\ dfErr' = getitem_slice_err(df, item)
    /\ ret' = IF dfErr' = "none" THEN getitem_slice(df, item) ELSE <<>>
    /\ df' = df
    /\ UNCHANGED <<seriesVars, argVars>>

Bounds == {NoneV, IntV(0), IntV(1)}
Steps == {NoneV, IntV(1), IntV(2), IntV(-1)}

InitFrame ==
    /\ heap = [c \in Cells |-> NoSeries]
    /\ ref = [h \in Handles |-> 1]
    /\ borrowed = [c \in Cells |-> FALSE]
    /\ call = IdleCall
    /\ last = NoOp
    /\ pyarrow = TRUE
    /\ df = <<>> /\ ret = <<>> /\ dfErr = "none"
    /\ idx_type = "UInt32" /\ arg = NoArg

NextFrame ==
    \/ \E a \in ColSeries, b \in ColSeries : DataFrameNew(<<a, b>>)
    \/ \E a \in ColSeries : HStack(<<a>>)
    \/ \E a \in ColSeries : VStack(<<a>>)
    \/ \E n \in ColNames, a \in ColSeries : Replace(n, a)
    \/ \E i \in 0..MaxCols, a \in ColSeries : ReplaceAtIdx(i, a)
    \/ \E n \in ColNames : Drop(n)
    \/ \E n \in ColNames : DropInPlace(n)
    \/ \E n \in ColNames, a \in ColSeries : SetItemName(n, a)
    \/ \E i \in 0..MaxCols, a \in ColSeries : SetItemIdx(i, a)
    \/ \E r \in SUBSET (0..(MaxRows - 1)), i \in 0..MaxCols, v \in CellValues :
          SetItemCellIdx(r, i, v)
    \/ \E r \in SUBSET (0..(MaxRows - 1)), n \in ColNames, v \in CellValues :
          SetItemCellName(r, n, v)
    \/ \E start \in Bounds, stop \in Bounds, step \in Steps :
          GetItemSlice(Slice(start, stop, step))

SpecFrame == InitFrame /\ [][NextFrame]_vars

EqualLengths(t) == \A i, j \in 1..Len(t) : Len(t[i].vals) = Len(t[j].vals)
UniqueNames(t) == \A i, j \in 1..Len(t) : i # j => t[i].name # t[j].name

\* C5 as stated: after any sequence of DataFrame operations all columns of
\* the table have the same length and no two columns have the same name.
C5_TableInvariant ==
    /\ EqualLengths(df) /\ UniqueNames(df)
    /\ EqualLengths(ret) /\ UniqueNames(ret)

\* the half of C5 the kernels' length checks keep
C5_EqualLengthsOnly == EqualLengths(df) /\ EqualLengths(ret)

\* ------------------------------------------- Series.__getitem__ (SpecIndex)
\* Integer widths are scaled down: 2^IdxBits stands for 2^32, and the other
\* widths keep their order around it.
IdxBits == 4         \* the bits of UInt32 and Int32 in the model
MaxIdx == 2          \* most positions in one index sequence

Two32 == 2^IdxBits

IntDTypes ==
    {"Int8", "Int16", "Int32", "Int64", "UInt8", "UInt16", "UInt32", "UInt64"}
SignedDTypes == {"Int8", "Int16", "Int32", "Int64"}

Bits(dtype) ==
    CASE dtype \in {"Int8", "UInt8"} -> IdxBits - 2
      [] dtype \in {"Int16", "UInt16"} -> IdxBits - 1
      [] dtype \in {"Int32", "UInt32"} -> IdxBits
      [] OTHER -> IdxBits + 2

MinOf(dtype) == IF dtype \in SignedDTypes THEN -(2^(Bits(dtype) - 1)) ELSE 0
MaxOf(dtype) ==
    IF dtype \in SignedDTypes THEN 2^(Bits(dtype) - 1) - 1 ELSE 2^Bits(dtype) - 1

Range(v) == {v[i] : i \in 1..Len(v)}
SeqMax(v) == CHOOSE x \in Range(v) : \A y \in Range(v) : y <= x
SeqMin(v) == CHOOSE x \in Range(v) : \A y \in Range(v) : x <= y

\* an index sequence: its dtype and its values
Idxs(dtype, vals) == [dtype |-> dtype, vals |-> vals]

\* Series.cast(dtype, strict=True) of integers: a value the dtype cannot hold
\* is an error
cast_strict_err(I, dtype) ==
    IF \E i \in 1..Len(I.vals) : I.vals[i] < MinOf(dtype) \/ I.vals[i] > MaxOf(dtype)
    THEN "Overflow" ELSE "none"
cast_strict(I, dtype) == Idxs(dtype, I.vals)

\* _pos_idxs, the range checks under a UInt32 index: idxs.max() >= 2**32 and
\* idxs.min() < -(2**32); the maximum of no values cannot be compared
RangeErr(it, I, emptyErr) ==
    IF it # "UInt32" \/ I.dtype \notin {"Int64", "UInt64"} THEN "none"
    ELSE IF I.vals = <<>> THEN emptyErr
    ELSE IF SeqMax(I.vals) >= Two32 THEN "ValueError"
    ELSE IF I.dtype = "Int64" /\ SeqMin(I.vals) < -Two32 THEN "ValueError"
    ELSE "none"

\* _pos_idxs, idxs.min() < 0 of a signed input: the minimum of no values cannot
\* be compared
NegErr(I, emptyErr) ==
    IF I.dtype \in SignedDTypes /\ I.vals = <<>> THEN emptyErr ELSE "none"

\* _pos_idxs, the cast of a narrow signed input before the translation
Widen(it, dtype) ==
    IF it = "UInt32"
    THEN IF dtype \in {"Int8", "Int16"} THEN "Int32" ELSE dtype
    ELSE IF dtype \in {"Int8", "Int16", "Int32"} THEN "Int64" ELSE dtype

\* _pos_idxs, when(idxs < 0).then(len + idxs).otherwise(idxs)
Translate(n, it, I) ==
    IF I.dtype \in SignedDTypes /\ I.vals # <<>> /\ SeqMin(I.vals) < 0
    THEN Idxs(Widen(it, I.dtype),
              [i \in 1..Len(I.vals) |->
                  IF I.vals[i] < 0 THEN n + I.vals[i] ELSE I.vals[i]])
    ELSE I

\* Series._pos_idxs(idxs): the error it raises and the positions it returns
pos_idxs_err(n, it, I, emptyErr) ==
    IF I.dtype = it THEN "none"
    ELSE IF I.dtype \notin IntDTypes THEN "NotImplementedError"
    ELSE IF RangeErr(it, I, emptyErr) # "none" THEN RangeErr(it, I, emptyErr)
    ELSE IF NegErr(I, emptyErr) # "none" THEN NegErr(I, emptyErr)
    ELSE cast_strict_err(Translate(n, it, I), it)
pos_idxs(n, it, I) ==
    IF I.dtype = it THEN I ELSE cast_strict(Translate(n, it, I), it)

\* PySeries.get_idx(item) and PySeries.take_with_series(idxs): a position
\* outside the Series is an error
py_get_idx_err(s, item) ==
    IF item < 0 \/ item >= len(s) THEN "OutOfRange" ELSE "none"
py_get_idx(s, item) == to_list(s)[item + 1]
py_take_err(s, I) ==
    IF \E i \in 1..Len(I.vals) : I.vals[i] < 0 \/ I.vals[i] >= len(s)
    THEN "OutOfRange" ELSE "none"
py_take(s, I) ==
    [name |-> s.name, dtype |-> s.dtype,
     chunks |-> << [i \in 1..Len(I.vals) |-> to_list(s)[I.vals[i] + 1]] >>]

\* Series.__getitem__(item) with an int: a negative item counts from the end
NormIdx_Off(s, item) == item
NormIdx(s, item) == IF item < 0 THEN len(s) + item ELSE item
getitem_int_err(s, item) == py_get_idx_err(s, NormIdx(s, item))
getitem_int(s, item) == py_get_idx(s, NormIdx(s, item))

\* Series.__getitem__(item) with an integer numpy array
getitem_numpy_err(s, it, I) ==
    IF pos_idxs_err(len(s), it, I, "ValueError") # "none"
    THEN pos_idxs_err(len(s), it, I, "ValueError")
    ELSE py_take_err(s, pos_idxs(len(s), it, I))
getitem_numpy(s, it, I) == py_take(s, pos_idxs(len(s), it, I))

\* Series.__getitem__(item) with an integer Series: UInt32 is taken as it is,
\* the other integer dtypes go through _pos_idxs
getitem_series_err(s, it, I) ==
    IF I.dtype = "UInt32" THEN py_take_err(s, I)
    ELSE IF I.dtype \in IntDTypes
    THEN IF pos_idxs_err(len(s), it, I, "TypeError") # "none"
         THEN pos_idxs_err(len(s), it, I, "TypeError")
         ELSE py_take_err(s, pos_idxs(len(s), it, I))
    ELSE "ValueError"
getitem_series(s, it, I) ==
    IF I.dtype = "UInt32" THEN py_take(s, I)
    ELSE py_take(s, pos_idxs(len(s), it, I))

\* Series("", item) of a list of ints: Int64, and Float32 when the list is
\* empty
ListDType(vals) == IF vals = <<>> THEN "Float32" ELSE "Int64"

\* one call of __getitem__ at a time: the caller sees the outcome, then goes on
Idle == last.op = "none"

GetItemInt(h, item) ==
    /\ Idle
    /\ arg' = [NoArg EXCEPT !.kind = "int", !.item = item]
    /\ LET s == heap[ref[h]]
           e == getitem_int_err(s, item)
       IN  last' = Did("getitem_int", h, {}, e,
                       IF e = "none" THEN << getitem_int(s, item) >> ELSE <<>>)
    /\ UNCHANGED <<heap, ref, borrowed, call, pyarrow, frameVars, idx_type>>

GetItemList(h, vals) ==
    /\ Idle
    /\ arg' = [NoArg EXCEPT !.kind = "list", !.dtype = ListDType(vals),
                            !.vals = vals]
    /\ LET s == heap[ref[h]]
           I == Idxs(ListDType(vals), vals)
           e == getitem_series_err(s, idx_type, I)
       IN  last' = Did("getitem_list", h, {}, e,
                       IF e = "none" THEN << getitem_series(s, idx_type, I) >>
                       ELSE <<>>)
    /\ UNCHANGED <<heap, ref, borrowed, call, pyarrow, frameVars, idx_type>>

GetItemSeries(h, I) ==
    /\ Idle
    /\ arg' = [NoArg EXCEPT !.kind = "series", !.dtype = I.dtype,
                            !.vals = I.vals]
    /\ LET s == heap[ref[h]]
           e == getitem_series_err(s, idx_type, I)
       IN  last' = Did("getitem_series", h, {}, e,
                       IF e = "none" THEN << getitem_series(s, idx_type, I) >>
                       ELSE <<>>)
    /\ UNCHANGED <<heap, ref, borrowed, call, pyarrow, frameVars, idx_type>>

GetItemNumpy(h, I) ==
    /\ Idle
    /\ arg' = [NoArg EXCEPT !.kind = "numpy", !.dtype = I.dtype,
                            !.vals = I.vals]
    /\ LET s == heap[ref[h]]
           e == getitem_numpy_err(s, idx_type, I)
       IN  last' = Did("getitem_numpy", h, {}, e,
                       IF e = "none" THEN << getitem_numpy(s, idx_type, I) >>
                       ELSE <<>>)
    /\ UNCHANGED <<heap, ref, borrowed, call, pyarrow, frameVars, idx_type>>

\* the caller is done with the outcome
Done ==
    /\ ~Idle
    /\ last' = NoOp
    /\ arg' = NoArg
    /\ UNCHANGED <<heap, ref, borrowed, call, pyarrow, frameVars, idx_type>>

IdxValues == {-Two32 - 1, -Two32, -4, -1, 0, 2, Two32}
IdxSeqs(dtype) ==
    SeqsUpTo({v \in IdxValues : MinOf(dtype) <= v /\ v <= MaxOf(dtype)}, MaxIdx)
IdxInputs == UNION {{Idxs(d, v) : v \in IdxSeqs(d)} : d \in IntDTypes}

IndexChunks == { << <<5>> >>, << <<5, Null, 6>> >>, << <<5, 6>>, <<7>> >> }

InitIndex ==
    /\ \E ch \in IndexChunks :
          heap = [c \in Cells |->
                    IF c = 1 THEN [name |-> "x", dtype |-> "Int64", chunks |-> ch]
                    ELSE NoSeries]
    /\ ref = [h \in Handles |-> IF h = "a" THEN 1 ELSE 2]
    /\ borrowed = [c \in Cells |-> FALSE]
    /\ call = IdleCall
    /\ last = NoOp
    /\ pyarrow = TRUE
    /\ df = <<>> /\ ret = <<>> /\ dfErr = "none"
    /\ idx_type \in {"UInt32", "UInt64"}
    /\ arg = NoArg

NextIndex ==
    \/ \E item \in (-MaxLen - 1)..MaxLen : GetItemInt("a", item)
    \/ \E vals \in IdxSeqs("Int64") : GetItemList("a", vals)
    \/ \E I \in IdxInputs : GetItemSeries("a", I)
    \/ \E I \in IdxInputs : GetItemNumpy("a", I)
    \/ Done

SpecIndex == InitIndex /\ [][NextIndex]_vars

Recv == last.pre
Pos(n, v) == IF v < 0 THEN n + v ELSE v

\* C7: for a Series s of length n and 0 <= k < n, s[-k-1] returns the value
\* s[n-k-1] returns: the element at position n-k-1.
C7_NegativeIndex ==
    (last.op = "getitem_int" /\ arg.item < 0 /\ -arg.item <= len(Recv))
    => /\ last.raised = "none"
       /\ getitem_int_err(Recv, len(Recv) + arg.item) = "none"
       /\ last.result = << getitem_int(Recv, len(Recv) + arg.item) >>
       /\ last.result = << to_list(Recv)[len(Recv) + arg.item + 1] >>

C7_Witness ==
    /\ last.op = "getitem_int" /\ arg.item = -2 /\ len(Recv) = 3
    /\ last.result = <<Null>>

SeqOps == {"getitem_list", "getitem_series", "getitem_numpy"}
AllValid(n, vals) ==
    \A i \in 1..Len(vals) : 0 <= Pos(n, vals[i]) /\ Pos(n, vals[i]) < n
Gathered(s, vals) ==
    [i \in 1..Len(vals) |-> to_list(s)[Pos(len(s), vals[i]) + 1]]

\* C8 as stated: indexing with a sequence of integer indices (list, integer
\* Series, integer numpy array) gathers the elements at the positions in
\* order, a negative index v standing for n + v, and the result has as many
\* elements as there are indices.
C8_GatherTranslated ==
    (last.op \in SeqOps /\ AllValid(len(Recv), arg.vals))
    => /\ last.raised = "none"
       /\ last.result # <<>>
       /\ to_list(last.result[1]) = Gathered(Recv, arg.vals)

\* the part of C8 that holds: with at least one index
C8_NonEmptyGather ==
    (last.op \in SeqOps /\ arg.vals # <<>> /\ AllValid(len(Recv), arg.vals))
    => /\ last.raised = "none"
       /\ last.result # <<>>
       /\ to_list(last.result[1]) = Gathered(Recv, arg.vals)

OutOfWidth(n, vals) ==
    \E i \in 1..Len(vals) : vals[i] >= Two32 \/ (vals[i] < 0 /\ n + vals[i] < 0)
In64(a) == a.dtype \in {"Int64", "UInt64"}
C9_Case ==
    /\ last.op \in SeqOps /\ idx_type = "UInt32" /\ In64(arg)
    /\ OutOfWidth(len(Recv), arg.vals)

\* C9, corrected: under a UInt32 index a 64-bit index input with a value
\* >= 2^32, or a negative value that translates below zero, raises and gathers
\* nothing; the error is ValueError exactly when a value is >= 2^32 or
\* < -2^32, and the strict cast's Overflow otherwise.
C9_OutOfWidthRaises ==
    C9_Case
    => /\ last.raised # "none"
       /\ last.result = <<>>
       /\ last.raised = "ValueError"
              <=> (SeqMax(arg.vals) >= Two32 \/ SeqMin(arg.vals) < -Two32)
       /\ last.raised \in {"ValueError", "Overflow"}

C9_Witness ==
    /\ C9_Case
    /\ arg.vals = <<0, -4>>
    /\ last.raised = "Overflow"

\* C9 as stated: every such input raises ValueError.
C9_Original == C9_Case => last.raised = "ValueError"

\* ---------------------------------------------- Series.__truediv__ (SpecArith)
Abs(x) == IF x < 0 THEN -x ELSE x
Sign(x) == IF x < 0 THEN -1 ELSE IF x = 0 THEN 0 ELSE 1

RECURSIVE GCD(_, _)
GCD(x, y) == IF y = 0 THEN x ELSE GCD(y, x % y)

\* a Float64 value p/q in lowest terms; q = 0 is inf, -inf or (0/0) nan
Float(p, q) ==
    IF q = 0 THEN [num |-> Sign(p), den |-> 0]
    ELSE LET g == GCD(Abs(p), Abs(q))
         IN  [num |-> (Sign(q) * p) \div g, den |-> Abs(q) \div g]

\* the null of a Float64 column
FNull == [num |-> 0, den |-> -1]

\* float(v) of an int
to_float(v) == Float(v, 1)

\* the division of two floats
fdiv(x, y) == Float(x.num * y.den, x.den * y.num)

\* the division of two integers of one dtype: towards zero, null by zero
idiv(x, y) ==
    IF y = 0 THEN Null ELSE Sign(x) * Sign(y) * (Abs(x) \div Abs(y))

IntegerDTypes == IntDTypes
FloatDTypes == {"Float32", "Float64"}

\* the null of a column of the dtype, and the test for it
NullOf(dtype) == IF dtype \in FloatDTypes THEN FNull ELSE Null
IsNull(dtype, v) == v = NullOf(dtype)

\* Series.cast(Float64) of an integer Series
cast_float64_Off(s) == s
cast_float64(s) ==
    [name |-> s.name, dtype |-> "Float64",
     chunks |-> [c \in 1..Len(s.chunks) |->
                   [i \in 1..Len(s.chunks[c]) |->
                       IF s.chunks[c][i] = Null THEN FNull
                       ELSE to_float(s.chunks[c][i])]]]

AsFloats(dtype, vals) ==
    [i \in 1..Len(vals) |->
        IF dtype \in FloatDTypes THEN vals[i]
        ELSE IF vals[i] = Null THEN FNull ELSE to_float(vals[i])]

\* PySeries.div(other) of two columns of one length: Float64 when either side
\* is a float, else the division of the integers; null where either side is
\* null
py_div(s, o) ==
    LET x == to_list(s)
        isf == s.dtype \in FloatDTypes \/ o.dtype \in FloatDTypes
        xf == AsFloats(s.dtype, x)
        yf == AsFloats(o.dtype, o.vals)
    IN  [name |-> s.name,
         dtype |-> IF isf THEN "Float64" ELSE s.dtype,
         chunks |-> << [i \in 1..Len(x) |->
                          IF isf
                          THEN IF xf[i] = FNull \/ yf[i] = FNull THEN FNull
                               ELSE fdiv(xf[i], yf[i])
                          ELSE IF x[i] = Null \/ o.vals[i] = Null THEN Null
                               ELSE idiv(x[i], o.vals[i])] >>]

\* maybe_cast(other, dtype): the scalar as a value of the receiver's dtype
maybe_cast(a, dtype) ==
    IF dtype \in FloatDTypes /\ a.dtype = "int" THEN to_float(a.item) ELSE a.item

\* PySeries.div_<dtype>(other) with a scalar
py_div_scalar(s, v) ==
    LET x == to_list(s)
    IN  [name |-> s.name, dtype |-> s.dtype,
         chunks |-> << [i \in 1..Len(x) |->
                          IF IsNull(s.dtype, x[i]) THEN x[i]
                          ELSE IF s.dtype \in FloatDTypes THEN fdiv(x[i], v)
                          ELSE idiv(x[i], v)] >>]

\* sequence_to_pyseries("", [other]) of a float, met by every element of the
\* receiver
FloatOperand(s, v) == Idxs("Float64", [i \in 1..len(s) |-> v])

\* Series._arithmetic(other, "div", "div_<>"): a Series operand goes to
\* PySeries.div, a float beside a receiver that is no float goes there as a
\* Series of one value, any other scalar goes to div_<dtype>
arithmetic_div(s, a) ==
    IF a.kind = "series" THEN py_div(s, a)
    ELSE IF a.dtype = "float" /\ ~is_float(s) THEN py_div(s, FloatOperand(s, a.item))
    ELSE py_div_scalar(s, maybe_cast(a, s.dtype))

\* Series.__truediv__(other)
truediv_err(s, a) == IF is_datelike(s) THEN "ValueError" ELSE "none"
truediv(s, a) ==
    IF is_float(s) THEN arithmetic_div(s, a)
    ELSE arithmetic_div(cast_float64(s), a)

TrueDivSeries(h, o) ==
    /\ Idle
    /\ len(heap[ref[h]]) = Len(o.vals)
    /\ arg' = [NoArg EXCEPT !.kind = "series", !.dtype = o.dtype,
                            !.vals = o.vals]
    /\ LET s == heap[ref[h]]
           e == truediv_err(s, arg')
       IN  last' = Did("truediv", h, {}, e,
                       IF e = "none" THEN << truediv(s, arg') >> ELSE <<>>)
    /\ UNCHANGED <<heap, ref, borrowed, call, pyarrow, frameVars, idx_type>>

TrueDivScalar(h, dtype, v) ==
    /\ Idle
    /\ arg' = [NoArg EXCEPT !.kind = "scalar", !.dtype = dtype, !.item = v]
    /\ LET s == heap[ref[h]]
           e == truediv_err(s, arg')
       IN  last' = Did("truediv", h, {}, e,
                       IF e = "none" THEN << truediv(s, arg') >> ELSE <<>>)
    /\ UNCHANGED <<heap, ref, borrowed, call, pyarrow, frameVars, idx_type>>

\* PySeries.floor: every float goes down to the next whole number
floor_f(v) == IF v.den <= 0 THEN v ELSE Float(v.num \div v.den, 1)
py_floor(s) ==
    [s EXCEPT !.chunks = [c \in 1..Len(s.chunks) |->
                            [i \in 1..Len(s.chunks[c]) |-> floor_f(s.chunks[c][i])]]]

\* Series.__floordiv__(other): the result is floored when the receiver is a
\* float Series or other is a Python float
floordiv_err(s, a) == IF is_datelike(s) THEN "ValueError" ELSE "none"
floordiv(s, a) ==
    IF is_float(s) \/ (a.kind = "scalar" /\ a.dtype = "float")
    THEN py_floor(arithmetic_div(s, a))
    ELSE arithmetic_div(s, a)

FloorDivSeries(h, o) ==
    /\ Idle
    /\ len(heap[ref[h]]) = Len(o.vals)
    /\ arg' = [NoArg EXCEPT !.kind = "series", !.dtype = o.dtype,
                            !.vals = o.vals]
    /\ LET s == heap[ref[h]]
           e == floordiv_err(s, arg')
       IN  last' = Did("floordiv", h, {}, e,
                       IF e = "none" THEN << floordiv(s, arg') >> ELSE <<>>)
    /\ UNCHANGED <<heap, ref, borrowed, call, pyarrow, frameVars, idx_type>>

FloorDivScalar(h, dtype, v) ==
    /\ Idle
    /\ arg' = [NoArg EXCEPT !.kind = "scalar", !.dtype = dtype, !.item = v]
    /\ LET s == heap[ref[h]]
           e == floordiv_err(s, arg')
       IN  last' = Did("floordiv", h, {}, e,
                       IF e = "none" THEN << floordiv(s, arg') >> ELSE <<>>)
    /\ UNCHANGED <<heap, ref, borrowed, call, pyarrow, frameVars, idx_type>>

ArithChunks ==
    { << <<1, 2, 3>> >>, << <<3>>, <<Null, 0>> >>, << <<-3, 2>> >>, << <<>> >> }
ArithInts == {2, 0, -2, Null}
ArithFloats == {Float(1, 2), Float(-2, 1), FNull}
ArithOthers(dtype) ==
    {Idxs(dtype, v) :
        v \in SeqsUpTo(IF dtype = "Float64" THEN ArithFloats ELSE ArithInts,
                       MaxLen)}

InitArith ==
    /\ \E ch \in ArithChunks, dt \in {"Int64", "Int32", "Float64", "Date"} :
          heap = [c \in Cells |->
                    IF c # 1 THEN NoSeries
                    ELSE IF dt = "Float64"
                    THEN cast_float64([name |-> "x", dtype |-> dt, chunks |-> ch])
                    ELSE [name |-> "x", dtype |-> dt, chunks |-> ch]]
    /\ ref = [h \in Handles |-> IF h = "a" THEN 1 ELSE 2]
    /\ borrowed = [c \in Cells |-> FALSE]
    /\ call = IdleCall
    /\ last = NoOp
    /\ pyarrow = TRUE
    /\ df = <<>> /\ ret = <<>> /\ dfErr = "none"
    /\ idx_type = "UInt32" /\ arg = NoArg

NextArith ==
    \/ \E dt \in {"Int64", "Float64"} : \E o \in ArithOthers(dt) :
          TrueDivSeries("a", o)
    \/ \E v \in ArithInts \ {Null} : TrueDivScalar("a", "int", v)
    \/ \E v \in ArithFloats \ {FNull} : TrueDivScalar("a", "float", v)
    \/ \E dt \in {"Int64", "Float64"} : \E o \in ArithOthers(dt) :
          FloorDivSeries("a", o)
    \/ \E v \in ArithInts \ {Null} : FloorDivScalar("a", "int", v)
    \/ \E v \in ArithFloats \ {FNull} : FloorDivScalar("a", "float", v)
    \/ Done

SpecArith == InitArith /\ [][NextArith]_vars

\* the quotient x / y of an integer x and an operand y as a real number
Quotient(x, y, isFloat) ==
    IF isFloat THEN Float(x * y.den, y.num) ELSE Float(x, y)

\* C10: for an integer-dtype Series s, s / other is elementwise true division
\* with a Float64 result, for a Series and for a scalar right operand; a null
\* on either side gives null.
C10_TrueDivision ==
    (last.op = "truediv" /\ Recv.dtype \in IntegerDTypes)
    => /\ last.raised = "none"
       /\ last.result[1].dtype = "Float64"
       /\ len(last.result[1]) = len(Recv)
       /\ \A i \in 1..len(Recv) :
            LET x == to_list(Recv)[i]
                y == IF arg.kind = "series" THEN arg.vals[i] ELSE arg.item
                isf == arg.dtype \in {"Float64", "float"}
            IN  to_list(last.result[1])[i] =
                  IF x = Null \/ (arg.kind = "series" /\ IsNull(arg.dtype, y))
                  THEN FNull
                  ELSE Quotient(x, y, isf)

C10_Witness ==
    /\ last.op = "truediv" /\ Recv.dtype = "Int64"
    /\ to_list(Recv) = <<1, 2, 3>>
    /\ arg.kind = "series" /\ arg.dtype = "Int64" /\ arg.vals = <<2, 2, 2>>
    /\ to_list(last.result[1]) = <<Float(1, 2), Float(1, 1), Float(3, 2)>>

AnyFloat == is_float(Recv) \/ arg.dtype \in {"float", "Float64"}

\* C11 as stated: s // other divides with the div kernel and floors the
\* quotient exactly when an operand is floating point: a float receiver, a
\* float scalar or a float Series operand.
C11_FloorIffFloat ==
    (last.op = "floordiv" /\ last.raised = "none")
    => last.result[1] = IF AnyFloat THEN py_floor(arithmetic_div(Recv, arg))
                        ELSE arithmetic_div(Recv, arg)

\* the part of C11 that holds: a float receiver or a float scalar
C11_FloorIffFloatButSeries ==
    (last.op = "floordiv" /\ last.raised = "none"
        /\ ~(arg.kind = "series" /\ arg.dtype = "Float64" /\ ~is_float(Recv)))
    => last.result[1] = IF AnyFloat THEN py_floor(arithmetic_div(Recv, arg))
                        ELSE arithmetic_div(Recv, arg)

\* ------------------------------------------- operator dispatch (SpecDispatch)
\* the operators that test is_datelike first, in both orders, and those that
\* do not
GuardedOps == {"mul", "truediv", "floordiv", "mod", "pow"}
FreeOps == {"add", "sub"}
CompOps == {"eq", "neq", "gt", "lt", "gt_eq", "lt_eq"}

\* the PySeries kernel an operator ends in
KernelOf(op) ==
    CASE op \in {"truediv", "floordiv"} -> "div"
      [] op = "mod" -> "rem"
      [] OTHER -> op

\* get_ffi_func(name, dtype, PySeries): whether the kernel <name>_<dtype>
\* exists; the scalar kernels exist for the numeric dtypes
HasKernel(dtype) == dtype \in IntDTypes \cup FloatDTypes

\* PySeries.<op>(other) of two Series: only numeric pairs have a kernel
PairErr(sd, od) ==
    IF HasKernel(sd) /\ HasKernel(od) THEN "none" ELSE "TypeMismatch"

\* one value of an integer kernel; truediv has cast both sides to Float64
IntOp(op, x, y) ==
    CASE op = "add" -> x + y
      [] op = "sub" -> x - y
      [] op = "mul" -> x * y
      [] op = "floordiv" -> idiv(x, y)
      [] op = "mod" -> IF y = 0 THEN Null ELSE x - y * idiv(x, y)
      [] op = "pow" -> x ^ y
      [] op = "truediv" -> fdiv(to_float(x), to_float(y))

\* the Series an operator returns for an integer receiver: element by element,
\* the operands swapped for a reflected operator, null where either is null
OpResult(op, s, a, reflected) ==
    LET x == to_list(s)
        nul == IF op = "truediv" THEN FNull ELSE Null
    IN  [name |-> s.name,
         dtype |-> IF op = "truediv" THEN "Float64" ELSE s.dtype,
         chunks |-> << [i \in 1..Len(x) |->
             LET y == IF a.kind = "series" THEN a.vals[i] ELSE a.item
             IN  IF x[i] = Null \/ y = Null THEN nul
                 ELSE IF reflected THEN IntOp(op, y, x[i])
                 ELSE IntOp(op, x[i], y)] >>]

Outcome(raised, kind, kernels) ==
    [raised |-> raised, kind |-> kind, kernels |-> kernels]

\* Series._arithmetic(other, op_s, op_ffi): a Series operand goes to the
\* kernel; for a scalar the kernel is looked up, and a missing kernel raises
\* ValueError
arithmetic_NoRaise(s, op, a) ==
    IF a.kind = "series"
    THEN Outcome(PairErr(s.dtype, a.dtype), "series", {KernelOf(op)})
    ELSE IF ~HasKernel(s.dtype) THEN Outcome("none", "NotImplemented", {})
    ELSE Outcome("none", "series", {KernelOf(op)})
arithmetic(s, op, a) ==
    IF a.kind = "series"
    THEN Outcome(PairErr(s.dtype, a.dtype), "series", {KernelOf(op)})
    ELSE IF ~HasKernel(s.dtype) THEN Outcome("ValueError", "none", {})
    ELSE Outcome("none", "series", {KernelOf(op)})

\* the operator methods: __add__ .. __pow__ and __radd__ .. __rpow__
operator(s, op, a) ==
    IF op \in GuardedOps /\ is_datelike(s) THEN Outcome("ValueError", "none", {})
    ELSE IF op = "pow"
    THEN Outcome(IF a.kind = "series" THEN PairErr(s.dtype, a.dtype) ELSE "none",
                 "series", {"select"})
    ELSE IF op = "truediv" /\ ~is_float(s)
    THEN LET o == arithmetic(cast_float64(s), op, a)
         IN  Outcome(o.raised, o.kind, o.kernels \cup {"cast"})
    ELSE arithmetic(s, op, a)

\* Series._comp(other, op) with a scalar: a missing kernel returns
\* NotImplemented, which Python turns into identity for == and !=, and into
\* TypeError for the order comparisons
comp(s, op) ==
    IF HasKernel(s.dtype) THEN Outcome("none", "series", {op})
    ELSE IF op \in {"eq", "neq"} THEN Outcome("none", "bool", {})
    ELSE Outcome("TypeError", "none", {})

\* Series.set(filter, value)
set(s) ==
    IF HasKernel(s.dtype) THEN Outcome("none", "series", {"set_with_mask"})
    ELSE Outcome("none", "NotImplemented", {})

\* Series.__invert__()
invert(s) ==
    IF s.dtype = "Boolean" THEN Outcome("none", "series", {"_not"})
    ELSE Outcome("none", "NotImplemented", {})

\* what the caller holds after the call
Called(op, h, a, o, result) ==
    /\ Idle
    /\ arg' = a
    /\ last' = [op |-> op, recv |-> h, pre |-> heap[ref[h]], views |-> {},
                raised |-> o.raised,
                result |-> IF o.raised = "none" /\ o.kind = "series"
                           THEN result ELSE <<>>,
                kind |-> IF o.raised = "none" THEN o.kind ELSE "none",
                kernels |-> o.kernels]
    /\ UNCHANGED <<heap, ref, borrowed, call, pyarrow, frameVars, idx_type>>

ScalarArg(v) == [NoArg EXCEPT !.kind = "scalar", !.dtype = "int", !.item = v]
SeriesArg(g) ==
    [NoArg EXCEPT !.kind = "series", !.dtype = heap[ref[g]].dtype,
                  !.vals = to_list(heap[ref[g]])]

\* s op x with a scalar x
OpScalar(h, op, v) ==
    /\ Called(op, h, ScalarArg(v), operator(heap[ref[h]], op, ScalarArg(v)),
           << OpResult(op, heap[ref[h]], ScalarArg(v), FALSE) >>)

\* x op s with a scalar x: the reflected method of s
ROpScalar(h, op, v) ==
    /\ Called("r" \o op, h, ScalarArg(v), operator(heap[ref[h]], op, ScalarArg(v)),
           << OpResult(op, heap[ref[h]], ScalarArg(v), TRUE) >>)

\* s op x with a Series x: the method of the left Series
OpSeries(h, op, g) ==
    /\ h # g
    /\ Called(op, h, SeriesArg(g), operator(heap[ref[h]], op, SeriesArg(g)),
           << OpResult(op, heap[ref[h]], SeriesArg(g), FALSE) >>)

\* s == x, s < x, ... with a scalar x
Comp(h, op, v) ==
    /\ Called(op, h, ScalarArg(v), comp(heap[ref[h]], op),
           << py_eq(heap[ref[h]], v) >>)

\* s.set(filter, value)
SetMask(h, v) ==
    /\ Called("set", h, ScalarArg(v), set(heap[ref[h]]), << heap[ref[h]] >>)

\* ~s
Invert(h) ==
    /\ Called("invert", h, NoArg, invert(heap[ref[h]]), << heap[ref[h]] >>)

DateLike == {"Date", "Datetime", "Duration", "Time"}

InitDispatch ==
    /\ \E da \in DateLike \cup {"Int64"}, db \in {"Int64", "Boolean"},
          ch \in {<< <<4, 6>> >>, << <<4>>, <<Null>> >>} :
          heap = [c \in Cells |->
                    IF c = 1 THEN [name |-> "x", dtype |-> da, chunks |-> ch]
                    ELSE [name |-> "y", dtype |-> db, chunks |-> << <<1, 0>> >>]]
    /\ ref = [h \in Handles |-> IF h = "a" THEN 1 ELSE 2]
    /\ borrowed = [c \in Cells |-> FALSE]
    /\ call = IdleCall
    /\ last = NoOp
    /\ pyarrow = TRUE
    /\ df = <<>> /\ ret = <<>> /\ dfErr = "none"
    /\ idx_type = "UInt32" /\ arg = NoArg

NextDispatch ==
    \/ \E h \in Handles, op \in GuardedOps \cup FreeOps : OpScalar(h, op, 2)
    \/ \E h \in Handles, op \in GuardedOps \cup FreeOps : ROpScalar(h, op, 2)
    \/ \E h \in Handles, g \in Handles, op \in GuardedOps \cup FreeOps :
          OpSeries(h, op, g)
    \/ \E h \in Handles, op \in CompOps : Comp(h, op, 4)
    \/ \E h \in Handles : SetMask(h, 2)
    \/ \E h \in Handles : Invert(h)
    \/ Done

SpecDispatch == InitDispatch /\ [][NextDispatch]_vars

ROps == {"r" \o op : op \in GuardedOps}
DatelikeOperand == arg.kind = "series" /\ arg.dtype \in DateLike

\* C12 as stated: with a Date, Datetime, Duration or Time Series the operators
\* *, /, //, % and ** raise ValueError in both operand orders before any
\* kernel is called, and the Series is unchanged.
C12_DatelikeRejected ==
    (last.op \in GuardedOps \cup ROps /\ (is_datelike(Recv) \/ DatelikeOperand))
    => /\ last.raised = "ValueError"
       /\ last.kernels = {}
       /\ heap[ref[last.recv]] = Recv

\* the part of C12 that holds: the date-like Series is the receiver of the
\* method or of its reflected method
C12_DatelikeReceiverRejected ==
    (last.op \in GuardedOps \cup ROps /\ is_datelike(Recv))
    => /\ last.raised = "ValueError"
       /\ last.kernels = {}
       /\ heap[ref[last.recv]] = Recv

LookupOps == {"add", "sub", "mul", "floordiv", "mod"}
MissingKernel ==
    \/ last.op = "invert" /\ Recv.dtype # "Boolean"
    \/ /\ last.op \in {"set"} \cup CompOps \cup LookupOps
             \cup {"r" \o op : op \in LookupOps}
       /\ arg.kind = "scalar"
       /\ ~HasKernel(Recv.dtype)

\* C14 as stated: when the kernel of the Series' dtype for an operation with a
\* scalar operand does not exist (arithmetic, comparison, masked set, bitwise
\* not) the operation raises an error; it never returns NotImplemented or
\* another value.
C14_MissingKernelRaises == MissingKernel => last.raised # "none"

\* the part of C14 that holds: arithmetic
C14_MissingArithmeticKernelRaises ==
    (MissingKernel /\ last.op \notin {"set", "invert"} \cup CompOps)
    => last.raised # "none"

\* --------------------------------------------- Series.set_at_idx (SpecSetAtIdx)
\* PySeries.set_at_idx(idx, values): one value per position, or a single value
\* for all of them; another number of values, or a position outside the Series,
\* is refused
py_set_at_idx_err(s, idx, vals) ==
    IF Len(vals) # Len(idx) /\ Len(vals) # 1 THEN "ShapeMisMatch"
    ELSE IF \E i \in 1..Len(idx) : idx[i] < 0 \/ idx[i] >= len(s) THEN "OutOfRange"
    ELSE "none"
py_set_at_idx(s, idx, vals) ==
    [s EXCEPT !.chunks =
        << [p \in 1..len(s) |->
              IF \E i \in 1..Len(idx) : idx[i] = p - 1
              THEN LET i == CHOOSE i \in 1..Len(idx) :
                              idx[i] = p - 1 /\ \A j \in (i + 1)..Len(idx) : idx[j] # p - 1
                   IN  IF Len(vals) = 1 THEN vals[1] ELSE vals[i]
              ELSE to_list(s)[p]] >>]

\* set_at_idx, the values handed to the kernel: a scalar becomes a Series of
\* one value, extended to the number of positions when there is a position;
\* a sequence is taken as it is
SetValues(idx, a) ==
    IF a.kind = "scalar"
    THEN IF Len(idx) > 0 THEN [i \in 1..Len(idx) |-> a.item] ELSE << a.item >>
    ELSE a.item

\* Series.set_at_idx(idx, value): the numeric and date-like dtypes take the
\* Series kernel; the other dtypes take set_at_idx_<dtype> with the scalar
set_at_idx_err(s, idx, a) ==
    IF is_numeric(s) \/ is_datelike(s)
    THEN py_set_at_idx_err(s, idx, SetValues(idx, a))
    ELSE IF a.kind # "scalar" THEN "TypeError"
    ELSE py_set_at_idx_err(s, idx, [i \in 1..Len(idx) |-> a.item])
set_at_idx_NoWrite(s, idx, a) == s
set_at_idx(s, idx, a) ==
    IF is_numeric(s) \/ is_datelike(s)
    THEN py_set_at_idx(s, idx, SetValues(idx, a))
    ELSE py_set_at_idx(s, idx, [i \in 1..Len(idx) |-> a.item])

SetAtIdx(h, idx, kind, value) ==
    /\ Idle
    /\ arg' = [NoArg EXCEPT !.kind = kind, !.vals = idx, !.item = value]
    /\ LET s == heap[ref[h]]
           e == set_at_idx_err(s, idx, arg')
       IN  /\ heap' = IF e = "none" THEN [heap EXCEPT ![ref[h]] = set_at_idx(s, idx, arg')]
                      ELSE heap
           /\ last' = Did("set_at_idx", h, {}, e,
                          IF e = "none" THEN << h >> ELSE <<>>)
    /\ UNCHANGED <<ref, borrowed, call, pyarrow, frameVars, idx_type>>

SetAtIdxScalar(h, idx, v) ==
    /\ SetAtIdx(h, idx, "scalar", v)
SetAtIdxSequence(h, idx, vs) ==
    /\ SetAtIdx(h, idx, "sequence", vs)

\* a key of s[key] = value: a Series of a dtype, a list, or an int
Key(kind, dtype, vals) == [kind |-> kind, dtype |-> dtype, vals |-> vals]
Scalar(v) == [NoArg EXCEPT !.kind = "scalar", !.item = v]
MaskIdxs(vals) == {i - 1 : i \in {j \in 1..Len(vals) : vals[j] = 1}}

\* Series.set(mask, value) of a boolean mask of the Series' length
set_mask_err(s, mask) ==
    IF ~HasKernel(s.dtype) THEN "AttributeError"
    ELSE IF Len(mask) # len(s) THEN "ShapeMisMatch" ELSE "none"
set_mask(s, mask, v) ==
    [s EXCEPT !.chunks =
        << [p \in 1..len(s) |-> IF (p - 1) \in MaskIdxs(mask) THEN v ELSE to_list(s)[p]] >>]

\* Series.__setitem__(key, value) with a scalar value: a list or an int is made
\* a UInt32 Series first (a negative int is refused by that dtype); a Boolean
\* Series is a mask, a UInt32 or UInt64 Series the positions; for a Series of
\* another dtype no branch is taken
setitem_err(s, key, v) ==
    IF key.kind \in {"list", "int"}
    THEN IF \E i \in 1..Len(key.vals) : key.vals[i] < 0 THEN "OverflowError"
         ELSE set_at_idx_err(s, key.vals, Scalar(v))
    ELSE IF key.dtype = "Boolean" THEN set_mask_err(s, key.vals)
    ELSE IF key.dtype \in {"UInt32", "UInt64"} THEN set_at_idx_err(s, key.vals, Scalar(v))
    ELSE "none"
setitem(s, key, v) ==
    IF key.kind \in {"list", "int"} THEN set_at_idx(s, key.vals, Scalar(v))
    ELSE IF key.dtype = "Boolean" THEN set_mask(s, key.vals, v)
    ELSE IF key.dtype \in {"UInt32", "UInt64"} THEN set_at_idx(s, key.vals, Scalar(v))
    ELSE s

SetItem(h, key, v) ==
    /\ Idle
    /\ arg' = [kind |-> key.kind, dtype |-> key.dtype, vals |-> key.vals, item |-> v]
    /\ LET s == heap[ref[h]]
           e == setitem_err(s, key, v)
       IN  /\ heap' = IF e = "none" THEN [heap EXCEPT ![ref[h]] = setitem(s, key, v)]
                      ELSE heap
           /\ last' = Did("setitem", h, {}, e, <<>>)
    /\ UNCHANGED <<ref, borrowed, call, pyarrow, frameVars, idx_type>>

SetItemKeys ==
    {Key("series", dt, vals) : dt \in {"UInt32", "UInt64", "Int32", "Int64"},
                               vals \in SeqsUpTo({0, 2}, MaxIdx)}
    \cup {Key("series", "Boolean", m) : m \in {<<1, 0, 1, 0>>, <<0, 0, 0, 0>>, <<1, 0>>}}
    \cup {Key("list", "none", vals) : vals \in SeqsUpTo({0, 2, -1}, MaxIdx)}
    \cup {Key("int", "none", << k >>) : k \in {-1, 0, 3, 5}}

SetIdxs == SeqsUpTo({0, 2, 5}, MaxIdx)

InitSetAtIdx ==
    /\ \E dt \in {"Int64", "Boolean"},
          ch \in {<< <<1, 2, 3, 4>> >>, << <<1, 2>>, <<3, 4>> >>} :
          heap = [c \in Cells |->
                    IF c = 1 THEN [name |-> "x", dtype |-> dt, chunks |-> ch]
                    ELSE NoSeries]
    /\ ref = [h \in Handles |-> IF h = "a" THEN 1 ELSE 2]
    /\ borrowed = [c \in Cells |-> FALSE]
    /\ call = IdleCall
    /\ last = NoOp
    /\ pyarrow = TRUE
    /\ df = <<>> /\ ret = <<>> /\ dfErr = "none"
    /\ idx_type = "UInt32" /\ arg = NoArg

NextSetAtIdx ==
    \/ \E idx \in SetIdxs, v \in {99, 7} : SetAtIdxScalar("a", idx, v)
    \/ \E idx \in SetIdxs, vs \in SeqsUpTo({99, 7}, MaxIdx + 1) :
          SetAtIdxSequence("a", idx, vs)
    \/ \E key \in SetItemKeys, v \in {99, 7} : SetItem("a", key, v)
    \/ Done

SpecSetAtIdx == InitSetAtIdx /\ [][NextSetAtIdx]_vars

Now == heap[ref[last.recv]]
InRange(idx, n) == \A i \in 1..Len(idx) : 0 <= idx[i] /\ idx[i] < n
ScalarWritten ==
    /\ last.raised = "none"
    /\ last.result = << last.recv >>
    /\ Now.name = Recv.name /\ Now.dtype = Recv.dtype /\ len(Now) = len(Recv)
    /\ \A p \in 1..len(Recv) :
          to_list(Now)[p] = IF (p - 1) \in Range(arg.vals) THEN arg.item
                            ELSE to_list(Recv)[p]

\* C15: set_at_idx(idx, v) with a scalar v on a numeric Series writes v at
\* every position listed in idx and leaves every other position, the length,
\* the name and the dtype unchanged; the receiver is mutated and returned.
C15_SetAtIdxScalar ==
    (last.op = "set_at_idx" /\ arg.kind = "scalar" /\ is_numeric(Recv)
        /\ InRange(arg.vals, len(Recv)))
    => ScalarWritten

\* [1, 2, 3, 4] with positions [0, 2] and 99 is [99, 2, 99, 4]
C15_Witness ==
    /\ last.op = "set_at_idx" /\ arg.kind = "scalar" /\ last.raised = "none"
    /\ to_list(Recv) = <<1, 2, 3, 4>> /\ Recv.dtype = "Int64"
    /\ arg.vals = <<0, 2>> /\ arg.item = 99
    /\ to_list(Now) = <<99, 2, 99, 4>>

\* C16 as stated: a value sequence of another length than the positions is an
\* error and leaves the Series unchanged, and a scalar is never refused as a
\* length mismatch, whatever the number of positions.
C16_LengthMismatch ==
    /\ (last.op = "set_at_idx" /\ arg.kind = "sequence" /\ is_numeric(Recv)
           /\ Len(arg.item) # Len(arg.vals))
       => (last.raised # "none" /\ Now = Recv)
    /\ (last.op = "set_at_idx" /\ arg.kind = "scalar")
       => last.raised # "ShapeMisMatch"

\* the half of C16 that holds: the scalar, and the sequences of two values or more
C16_ScalarNeverMismatch ==
    /\ (last.op = "set_at_idx" /\ arg.kind = "sequence" /\ is_numeric(Recv)
           /\ Len(arg.item) # Len(arg.vals) /\ Len(arg.item) # 1)
       => (last.raised # "none" /\ Now = Recv)
    /\ (last.op = "set_at_idx" /\ arg.kind = "scalar")
       => last.raised # "ShapeMisMatch"

\* ------------------------------------- Series.cast and Series(...) (SpecCast)
\* a value the dtype cannot hold; a null is held by every dtype
Fits(v, dtype) == v = Null \/ (MinOf(dtype) <= v /\ v <= MaxOf(dtype))

\* PySeries.cast(dtype, strict) and the typed constructors new_<dtype>(name,
\* values, strict): strict refuses a value the dtype cannot hold, non-strict
\* makes it null
py_cast_strict_err(vals, dtype, strict) ==
    IF strict /\ \E i \in 1..Len(vals) : ~Fits(vals[i], dtype)
    THEN "ComputeError" ELSE "none"
py_cast_strict(vals, dtype, strict) ==
    [i \in 1..Len(vals) |-> IF Fits(vals[i], dtype) THEN vals[i] ELSE Null]

\* Series.cast(dtype, strict): wrap_s(self._s.cast(pl_dtype, strict))
cast_err(s, dtype, strict) == py_cast_strict_err(to_list(s), dtype, strict)
cast(s, dtype, strict) ==
    [name |-> s.name, dtype |-> dtype,
     chunks |-> [c \in 1..n_chunks(s) |-> py_cast_strict(s.chunks[c], dtype, strict)]]

\* sequence_to_pyseries(name, values, dtype, strict) with a dtype:
\* polars_type_to_constructor(dtype)(name, values, strict)
sequence_to_pyseries_err(values, dtype, strict) == py_cast_strict_err(values, dtype, strict)
sequence_to_pyseries(name, values, dtype, strict) ==
    [name |-> name, dtype |-> dtype, chunks |-> << py_cast_strict(values, dtype, strict) >>]

\* numpy_to_pyseries(name, values, strict, nan_to_null): the constructor of the
\* array's own dtype, which holds every value of the array
numpy_to_pyseries(name, values) ==
    [name |-> name, dtype |-> "Int64", chunks |-> << values >>]

\* Series.__init__(name, values, dtype, strict): the construction of each kind
\* of input; a numpy array is cast to the dtype with strict=True, a Series is
\* renamed and taken as it is
Series_err(kind, values, dtype, strict) ==
    CASE kind = "sequence" -> sequence_to_pyseries_err(values, dtype, strict)
      [] kind = "numpy" -> cast_err(numpy_to_pyseries("s", values), dtype, TRUE)
      [] OTHER -> "none"
Series(kind, values, dtype, strict) ==
    CASE kind = "sequence" -> sequence_to_pyseries("s", values, dtype, strict)
      [] kind = "numpy" -> cast(numpy_to_pyseries("s", values), dtype, TRUE)
      [] OTHER -> [name |-> "s", dtype |-> "Int64", chunks |-> << values >>]

Flag(strict) == IF strict THEN 1 ELSE 0

CastTo(h, dtype, strict) ==
    /\ Idle
    /\ arg' = [kind |-> "cast", dtype |-> dtype, vals |-> to_list(heap[ref[h]]),
               item |-> Flag(strict)]
    /\ LET s == heap[ref[h]]
           e == cast_err(s, dtype, strict)
       IN  last' = Did("cast", h, {}, e,
                       IF e = "none" THEN << cast(s, dtype, strict) >> ELSE <<>>)
    /\ UNCHANGED <<heap, ref, borrowed, call, pyarrow, frameVars, idx_type>>

New(kind, values, dtype, strict) ==
    /\ Idle
    /\ arg' = [kind |-> kind, dtype |-> dtype, vals |-> values, item |-> Flag(strict)]
    /\ LET e == Series_err(kind, values, dtype, strict)
       IN  last' = Did("new", "a", {}, e,
                       IF e = "none" THEN << Series(kind, values, dtype, strict) >>
                       ELSE <<>>)
    /\ UNCHANGED <<heap, ref, borrowed, call, pyarrow, frameVars, idx_type>>
NewSequence(values, dtype, strict) ==
    /\ New("sequence", values, dtype, strict)
NewNumpy(values, dtype, strict) ==
    /\ New("numpy", values, dtype, strict)
NewSeries(values, dtype, strict) ==
    /\ New("series", values, dtype, strict)

\* one more than the narrow dtype holds
TooBig == MaxOf("UInt8") + 2
CastDTypes == {"UInt8", "Int64"}
CastValues == {1, TooBig}

InitCast ==
    /\ \E ch \in {<< <<1, TooBig>> >>, << <<1>>, <<Null, TooBig>> >>, << <<1, 2>> >>} :
          heap = [c \in Cells |->
                    IF c = 1 THEN [name |-> "x", dtype |-> "Int64", chunks |-> ch]
                    ELSE NoSeries]
    /\ ref = [h \in Handles |-> IF h = "a" THEN 1 ELSE 2]
    /\ borrowed = [c \in Cells |-> FALSE]
    /\ call = IdleCall
    /\ last = NoOp
    /\ pyarrow = TRUE
    /\ df = <<>> /\ ret = <<>> /\ dfErr = "none"
    /\ idx_type = "UInt32" /\ arg = NoArg

NextCast ==
    \/ \E dt \in CastDTypes, st \in BOOLEAN : CastTo("a", dt, st)
    \/ \E vs \in SeqsUpTo(CastValues \cup {Null}, MaxLen), dt \in CastDTypes,
          st \in BOOLEAN : NewSequence(vs, dt, st)
    \/ \E vs \in SeqsUpTo(CastValues, MaxLen), dt \in CastDTypes, st \in BOOLEAN :
          NewNumpy(vs, dt, st)
    \/ \E vs \in SeqsUpTo(CastValues, MaxLen), dt \in CastDTypes, st \in BOOLEAN :
          NewSeries(vs, dt, st)
    \/ Done

SpecCast == InitCast /\ [][NextCast]_vars

OutOfRange == \E i \in 1..Len(arg.vals) : ~Fits(arg.vals[i], arg.dtype)
NulledOut ==
    /\ last.raised = "none"
    /\ to_list(last.result[1]) =
          [i \in 1..Len(arg.vals) |->
              IF Fits(arg.vals[i], arg.dtype) THEN arg.vals[i] ELSE Null]

\* C17 as stated: without strict, by cast(dtype, strict=False) or by
\* construction with a dtype and strict=False from any kind of input, a value
\* the dtype cannot hold becomes null and nothing is raised; with strict the
\* same value is an overflow error.
C17_NonStrictNulls ==
    (last.op \in {"cast", "new"} /\ OutOfRange)
    => IF arg.item = 0 THEN NulledOut ELSE last.raised # "none"

\* the part of C17 that holds: the cast and the construction from a sequence
C17_NonStrictNullsCastAndSequence ==
    (last.op \in {"cast", "new"} /\ arg.kind \in {"cast", "sequence"} /\ OutOfRange)
    => IF arg.item = 0 THEN NulledOut ELSE last.raised # "none"

\* ----------------------------------------------- selectors (SpecSelectors)
MaxInverts == 3      \* most inversions of one selector

\* a column name is a sequence of characters, a table a set of columns with
\* different names
SelNames == {<<"a">>, <<"a", "b">>, <<"b", "b">>}
SelDTypes == {"Int64", "Float64", "Utf8", "Date"}
FLOAT_DTYPES == {"Float32", "Float64"}
INTEGER_DTYPES == IntDTypes
NUMERIC_DTYPES == FLOAT_DTYPES \cup INTEGER_DTYPES
TEMPORAL_DTYPES == {"Date", "Datetime", "Duration", "Time"}

\* one argument of col(...) and exclude(...): dtypes, names, or a regular
\* expression over the names
NoRe == [shape |-> "none", alts |-> {}]
DItem(dtypes) == [by |-> "dtype", dtypes |-> dtypes, names |-> {}, re |-> NoRe]
NItem(names) == [by |-> "name", dtypes |-> {}, names |-> names, re |-> NoRe]
RItem(shape, alts) ==
    [by |-> "regex", dtypes |-> {}, names |-> {}, re |-> [shape |-> shape, alts |-> alts]]

StartsWith(n, x) == Len(x) <= Len(n) /\ SubSeq(n, 1, Len(x)) = x
EndsWith(n, x) == Len(x) <= Len(n) /\ SubSeq(n, Len(n) - Len(x) + 1, Len(n)) = x
Contains(n, x) == \E i \in 0..(Len(n) - Len(x)) : SubSeq(n, i + 1, i + Len(x)) = x

\* the regular expressions the selectors build: ^.*x.*$, ^(x).*$, ^.*(x)$, ^x$
ReMatch(re, n) ==
    \E x \in re.alts :
        CASE re.shape = "contains" -> Contains(n, x)
          [] re.shape = "starts" -> StartsWith(n, x)
          [] re.shape = "ends" -> EndsWith(n, x)
          [] OTHER -> n = x

ItemMatch(it, c) ==
    CASE it.by = "dtype" -> c.dtype \in it.dtypes
      [] it.by = "name" -> c.name \in it.names
      [] OTHER -> ReMatch(it.re, c.name)

\* the expressions: all(), col(*items), all().exclude(*items)
F_all == [fn |-> "all", items |-> {}]
F_col(items) == [fn |-> "col", items |-> items]
F_exclude(items) == [fn |-> "exclude", items |-> items]

\* the names of the columns of the table that the expression expands to
Select(expr, t) ==
    CASE expr.fn = "all" -> {c.name : c \in t}
      [] expr.fn = "col" -> {c.name : c \in {d \in t : \E it \in expr.items : ItemMatch(it, d)}}
      [] OTHER -> {c.name : c \in {d \in t : ~\E it \in expr.items : ItemMatch(it, d)}}

\* _selector_proxy_(expr, type_, parameters, raw_parameters, invert)
None == [none |-> TRUE, items |-> {}]
Some(items) == [none |-> FALSE, items |-> items]
OrEmpty(p) == Some(p.items)
selector_proxy(expr, type, parameters, raw_parameters, inv) ==
    [expr |-> expr, type |-> type, params |-> parameters,
     raw_params |-> raw_parameters, inverted |-> inv]

\* __invert__: raw_params falls back to the values of params
RawParams_NoFallback(sl) == OrEmpty(sl.raw_params)
RawParams(sl) ==
    IF OrEmpty(sl.raw_params).items = {} /\ OrEmpty(sl.params).items # {}
    THEN Some(sl.params.items)
    ELSE OrEmpty(sl.raw_params)

\* _selector_proxy_.__invert__
invert_err(sl) == IF sl.type \in {"first", "last"} THEN "ValueError" ELSE "none"
invert_selector(sl) ==
    LET params == OrEmpty(sl.params)
        raw_params == RawParams(sl)
        inverted_expr ==
            IF sl.type = "all"
            THEN (IF sl.inverted THEN F_all ELSE F_col({NItem({})}))
            ELSE IF sl.inverted THEN F_col(raw_params.items)
            ELSE F_exclude(raw_params.items)
    IN  selector_proxy(inverted_expr, sl.type, params, raw_params, ~sl.inverted)

\* the selector functions
s_all == selector_proxy(F_all, "all", None, None, FALSE)
s_by_dtype(dtypes) ==
    selector_proxy(F_col({DItem({d}) : d \in dtypes}), "by_dtype",
                   Some({DItem(dtypes)}), None, FALSE)
s_by_name(names) ==
    selector_proxy(F_col({NItem({n}) : n \in names}), "by_dtype",
                   Some({NItem(names)}), None, FALSE)
s_contains(subs) ==
    selector_proxy(F_col({RItem("contains", subs)}), "contains",
                   Some({NItem(subs)}), Some({RItem("contains", subs)}), FALSE)
s_ends_with(subs) ==
    selector_proxy(F_col({RItem("ends", subs)}), "ends_with",
                   Some({NItem(subs)}), Some({RItem("ends", subs)}), FALSE)
s_starts_with(subs) ==
    selector_proxy(F_col({RItem("starts", subs)}), "starts_with",
                   Some({NItem(subs)}), Some({RItem("starts", subs)}), FALSE)
\* matches(pattern): the pattern is a literal with or without ^ and $
s_matches(lit, caret, dollar) ==
    LET shape == IF caret /\ dollar THEN "exact"
                 ELSE IF caret THEN "starts"
                 ELSE IF dollar THEN "ends" ELSE "contains"
    IN  selector_proxy(F_col({RItem(shape, {lit})}), "matches",
                       Some({RItem(shape, {lit})}), Some({RItem(shape, {lit})}), FALSE)
s_dtypes(type, dtypes) ==
    selector_proxy(F_col({DItem(dtypes)}), type, None, Some({DItem(dtypes)}), FALSE)
s_float == s_dtypes("float", FLOAT_DTYPES)
s_integer == s_dtypes("integer", INTEGER_DTYPES)
s_numeric == s_dtypes("numeric", NUMERIC_DTYPES)
s_temporal == s_dtypes("temporal", TEMPORAL_DTYPES)
s_string(include_categorical) ==
    s_dtypes("string", IF include_categorical THEN {"Utf8", "Categorical"} ELSE {"Utf8"})

Selectors ==
    {s_all, s_float, s_integer, s_numeric, s_temporal, s_string(FALSE), s_string(TRUE)}
    \cup {s_by_dtype(D) : D \in {{"Int64"}, {"Utf8", "Date"}}}
    \cup {s_by_name(N) : N \in {{<<"a">>}, {<<"a", "b">>, <<"b", "b">>}}}
    \cup {s_contains(X) : X \in {{<<"a">>}, {<<"b", "b">>, <<"a">>}}}
    \cup {s_ends_with(X) : X \in {{<<"b">>}, {<<"a">>, <<"b", "b">>}}}
    \cup {s_starts_with(X) : X \in {{<<"a">>}, {<<"b">>}}}
    \cup {s_matches(x, c, d) : x \in {<<"a">>, <<"b">>}, c \in BOOLEAN, d \in BOOLEAN}

\* the tables: every choice of names, every choice of their dtypes
Tables ==
    UNION {{ {[name |-> n, dtype |-> f[n]] : n \in N} : f \in [N -> SelDTypes] }
              : N \in SUBSET SelNames}

\* the selector is built: arg holds it, ret holds what the inversions make of it
SelectorNew(sl) ==
    /\ arg.kind = "none"
    /\ arg' = [kind |-> "selector", dtype |-> sl.type, vals |-> << sl >>, item |-> 0]
    /\ ret' = << sl >>
    /\ UNCHANGED <<seriesVars, df, dfErr, idx_type>>

\* ~s
SelectorInvert ==
    /\ arg.kind = "selector"
    /\ arg.item < MaxInverts
    /\ invert_err(ret[1]) = "none"
    /\ ret' = << invert_selector(ret[1]) >>
    /\ arg' = [arg EXCEPT !.item = @ + 1]
    /\ UNCHANGED <<seriesVars, df, dfErr, idx_type>>

\* an argument of by_dtype and by_name: one item, or a collection of items;
\* an item is a dtype, a string, or something else
Item(is, d, n) == [is |-> is, d |-> d, n |-> n]
One(item) == [coll |-> FALSE, items |-> << item >>]
Coll(items) == [coll |-> TRUE, items |-> items]
AllItems(args) == UNION {Range(args[i].items) : i \in 1..Len(args)}

\* by_dtype(*dtypes): a dtype is taken, a collection must hold dtypes only,
\* anything else is a TypeError
by_dtype_err(args) ==
    IF \E i \in 1..Len(args) :
          IF ~args[i].coll THEN args[i].items[1].is # "dtype"
          ELSE \E j \in 1..Len(args[i].items) : args[i].items[j].is # "dtype"
    THEN "TypeError" ELSE "none"
by_dtype(args) == s_by_dtype({it.d : it \in AllItems(args)})

\* by_name(*names): a string is taken, a collection must hold strings only;
\* for anything else a TypeError is made and not raised
by_name_err(args) ==
    IF \E i \in 1..Len(args) :
          args[i].coll /\ \E j \in 1..Len(args[i].items) : args[i].items[j].is # "str"
    THEN "TypeError" ELSE "none"
by_name(args) == s_by_name({it.n : it \in {x \in AllItems(args) : x.is = "str"}})

SelectorCall(fn, args, err, sl) ==
    /\ arg.kind = "none"
    /\ last' = [NoOp EXCEPT !.op = fn, !.raised = err, !.result = args]
    /\ arg' = IF err = "none"
              THEN [kind |-> "selector", dtype |-> sl.type, vals |-> << sl >>, item |-> 0]
              ELSE [NoArg EXCEPT !.kind = "rejected"]
    /\ ret' = IF err = "none" THEN << sl >> ELSE <<>>
    /\ UNCHANGED <<heap, ref, borrowed, call, pyarrow, df, dfErr, idx_type>>
ByDType(args) ==
    /\ SelectorCall("by_dtype", args, by_dtype_err(args), by_dtype(args))
ByName(args) ==
    /\ SelectorCall("by_name", args, by_name_err(args), by_name(args))

DTypeItems == {Item("dtype", "Int64", <<>>), Item("dtype", "Utf8", <<>>), Item("int", "none", <<>>)}
NameItems == {Item("str", "none", <<"a">>), Item("str", "none", <<"b", "b">>), Item("int", "none", <<>>)}
ArgsOf(items) ==
    LET A == {One(it) : it \in items} \cup {Coll(c) : c \in SeqsUpTo(items, 2)}
    IN  SeqsUpTo(A, 2)

\* the selector is dropped
SelectorDone ==
    /\ arg.kind \in {"selector", "rejected"}
    /\ arg' = NoArg
    /\ ret' = <<>>
    /\ last' = NoOp
    /\ UNCHANGED <<heap, ref, borrowed, call, pyarrow, df, dfErr, idx_type>>

InitSelectors ==
    /\ heap = [c \in Cells |-> NoSeries]
    /\ ref = [h \in Handles |-> 1]
    /\ borrowed = [c \in Cells |-> FALSE]
    /\ call = IdleCall
    /\ last = NoOp
    /\ pyarrow = TRUE
    /\ df \in Tables /\ ret = <<>> /\ dfErr = "none"
    /\ idx_type = "UInt32" /\ arg = NoArg

NextSelectors ==
    \/ \E sl \in Selectors : SelectorNew(sl)
    \/ \E args \in ArgsOf(DTypeItems) : ByDType(args)
    \/ \E args \in ArgsOf(NameItems) : ByName(args)
    \/ SelectorInvert
    \/ SelectorDone

SpecSelectors == InitSelectors /\ [][NextSelectors]_vars

Built == arg.vals[1]
Inverted == ret[1]
AllNames == {c.name : c \in df}
Odd(k) == k % 2 = 1

\* C18: for every invertible selector s and every table, ~s selects exactly the
\* columns s does not select; after k inversions the type and the parameters
\* are those of s, the inverted flag is set exactly when k is odd, and an even
\* number of inversions selects what s selects.
C18_InvertIsComplement ==
    arg.kind = "selector" =>
        /\ Inverted.type = Built.type
        /\ OrEmpty(Inverted.params) = OrEmpty(Built.params)
        /\ Inverted.inverted = Odd(arg.item)
        /\ Select(Inverted.expr, df) =
              IF Odd(arg.item) THEN AllNames \ Select(Built.expr, df)
              ELSE Select(Built.expr, df)

\* ~by_dtype(Utf8, Date) on a table with an Int64 and a Utf8 column selects
\* the Int64 column
C18_Witness ==
    /\ arg.kind = "selector" /\ arg.item = 1
    /\ Built = s_by_dtype({"Utf8", "Date"})
    /\ \E c \in df : c.dtype = "Int64"
    /\ \E c \in df : c.dtype = "Utf8"
    /\ Select(Inverted.expr, df) = {c.name : c \in {d \in df : d.dtype = "Int64"}}
    /\ Select(Built.expr, df) # {}

\* ------------------------------------------------ Series.rechunk (SpecOps)
\* C19: for every Series, of any number of chunks, s.rechunk() has exactly one
\* chunk and the to_list of s, and the rechunk of a Series of one chunk is that
\* Series; s itself is not changed.
C19_RechunkOneChunk ==
    last.op = "rechunk" =>
        /\ last.raised = "none"
        /\ n_chunks(last.result[1]) = 1
        /\ to_list(last.result[1]) = to_list(Recv)
        /\ last.result[1].name = Recv.name /\ last.result[1].dtype = Recv.dtype
        /\ (n_chunks(Recv) = 1 => last.result[1] = Recv)
        /\ heap[ref[last.recv]] = Recv

\* a Series of two chunks or more was rechunked
C19_Witness ==
    /\ last.op = "rechunk"
    /\ n_chunks(Recv) >= 2
    /\ n_chunks(last.result[1]) = 1
    /\ len(Recv) >= 2

\* ------------------------------------- Series.to_arrow and back (SpecArrow)
\* a Decimal Series holds unscaled integers; the scale is part of the dtype
DecimalDTypes == {"Decimal0", "Decimal1", "Decimal2"}
Scale(dtype) ==
    CASE dtype = "Decimal1" -> 1
      [] dtype = "Decimal2" -> 2
      [] OTHER -> 0
DecimalOf(scale) ==
    CASE scale = 1 -> "Decimal1"
      [] scale = 2 -> "Decimal2"
      [] OTHER -> "Decimal0"

\* an Arrow array: its type, the scale of a decimal128 type, its chunks
ArrowArray(type, scale, chunks) == [type |-> type, scale |-> scale, chunks |-> chunks]

\* PySeries.to_arrow: one array of the Series' values, a Decimal as decimal128
\* of the same scale
py_to_arrow(s) ==
    IF s.dtype \in DecimalDTypes
    THEN ArrowArray("decimal128", Scale(s.dtype), << to_list(s) >>)
    ELSE ArrowArray("int64", 0, << to_list(s) >>)

\* pa.compute.cast(array, pa.float64()) of a decimal128 array
decimal_to_float64(v, scale) == IF v = Null THEN FNull ELSE Float(v, 10^scale)
cast_float64_arrow(a) ==
    ArrowArray("float64", 0,
               [c \in 1..Len(a.chunks) |->
                  [i \in 1..Len(a.chunks[c]) |-> decimal_to_float64(a.chunks[c][i], a.scale)]])

\* coerce_arrow: a Decimal128 array is cast to float64; an array of several
\* chunks is combined
coerce_arrow(a) ==
    LET array == IF a.type = "decimal128" THEN cast_float64_arrow(a) ELSE a
    IN  IF Len(array.chunks) > 1
        THEN [array EXCEPT !.chunks = << Flatten(array.chunks) >>]
        ELSE array

\* PySeries.from_arrow(name, array): the Series of the array's type
py_from_arrow(name, a) ==
    [name |-> name,
     dtype |-> CASE a.type = "decimal128" -> DecimalOf(a.scale)
                 [] a.type = "float64" -> "Float64"
                 [] OTHER -> "Int64",
     chunks |-> a.chunks]

\* arrow_to_pyseries(name, values)
arrow_to_pyseries(name, values) == py_from_arrow(name, coerce_arrow(values))

\* s.to_arrow(): the array is handed to the caller
ToArrow(h) ==
    /\ Idle /\ ret = <<>>
    /\ heap[ref[h]] # NoSeries
    /\ ret' = << py_to_arrow(heap[ref[h]]) >>
    /\ last' = Did("to_arrow", h, {}, "none", <<>>)
    /\ arg' = NoArg
    /\ UNCHANGED <<heap, ref, borrowed, call, pyarrow, df, dfErr, idx_type>>

\* Series(name, array) of the Arrow array the caller holds
FromArrow(h) ==
    /\ last.op = "to_arrow" /\ ret # <<>>
    /\ heap' = [heap EXCEPT ![ref[h]] = arrow_to_pyseries(last.pre.name, ret[1])]
    /\ last' = [last EXCEPT !.op = "from_arrow", !.result = << h >>]
    /\ arg' = NoArg
    /\ ret' = <<>>
    /\ UNCHANGED <<ref, borrowed, call, pyarrow, df, dfErr, idx_type>>

\* the caller drops the Series that came back
ArrowDone ==
    /\ last.op = "from_arrow"
    /\ heap' = [heap EXCEPT ![ref[last.result[1]]] = NoSeries]
    /\ last' = NoOp
    /\ UNCHANGED <<ref, borrowed, call, pyarrow, frameVars, argVars>>

ArrowValues == {10, 105, Null}

InitArrow ==
    /\ \E dt \in DecimalDTypes \cup {"Int64"},
          ch \in {<< v >> : v \in SeqsUpTo(ArrowValues, MaxLen)}
                 \cup {<< <<10>>, <<105, Null>> >>} :
          heap = [c \in Cells |->
                    IF c = 1 THEN [name |-> "dec", dtype |-> dt, chunks |-> ch]
                    ELSE NoSeries]
    /\ ref = [h \in Handles |-> IF h = "a" THEN 1 ELSE 2]
    /\ borrowed = [c \in Cells |-> FALSE]
    /\ call = IdleCall
    /\ last = NoOp
    /\ pyarrow = TRUE
    /\ df = <<>> /\ ret = <<>> /\ dfErr = "none"
    /\ idx_type = "UInt32" /\ arg = NoArg

NextArrow ==
    \/ ToArrow("a")
    \/ FromArrow("b")
    \/ ArrowDone

SpecArrow == InitArrow /\ [][NextArrow]_vars

Back == heap[ref[last.result[1]]]

\* C20 as stated: a Decimal Series taken to Arrow and built again from the
\* Arrow array is a Decimal Series of the same scale and the same values.
C20_DecimalRoundTrip ==
    (last.op = "from_arrow" /\ Recv.dtype \in DecimalDTypes)
    => (Back.dtype = Recv.dtype /\ to_list(Back) = to_list(Recv))

\* what holds instead: the Series that comes back is Float64, of the floats
\* nearest the decimals; an Int64 Series comes back as it was
C20_DecimalComesBackFloat ==
    last.op = "from_arrow" =>
        IF Recv.dtype \in DecimalDTypes
        THEN /\ Back.dtype = "Float64"
             /\ to_list(Back) =
                   [i \in 1..len(Recv) |->
                       decimal_to_float64(to_list(Recv)[i], Scale(Recv.dtype))]
        ELSE Back.dtype = Recv.dtype /\ to_list(Back) = to_list(Recv)

\* ---------------------------- Series(name, values) of a sequence (SpecInfer)
\* a Python value: its type, its digits and scale (a Decimal d is v / 10^s),
\* and for a list the values it holds
PyNone == [t |-> "NoneType", v |-> 0, s |-> 0, inner |-> <<>>]
PyInt(v) == [t |-> "int", v |-> v, s |-> 0, inner |-> <<>>]
PyDecimal(v, scale) == [t |-> "Decimal", v |-> v, s |-> scale, inner |-> <<>>]
PyList(inner) == [t |-> "list", v |-> 0, s |-> 0, inner |-> inner]
In(t, v) == [t |-> t, v |-> v]

\* _get_first_non_none(values): the first value that is not None, None
\* when there is none
RECURSIVE get_first_non_none(_)
get_first_non_none(values) ==
    IF values = <<>> THEN PyNone
    ELSE IF Head(values).t # "NoneType" THEN Head(values)
    ELSE get_first_non_none(Tail(values))

\* the first value of a list, as _get_first_non_none sees it
RECURSIVE inner_first_non_none(_)
inner_first_non_none(inner) ==
    IF inner = <<>> THEN "NoneType"
    ELSE IF Head(inner).t # "NoneType" THEN Head(inner).t
    ELSE inner_first_non_none(Tail(inner))

\* sequence_to_pyseries without a dtype: dtype_ = type(value) if value is not
\* None else float
InferredType(values) ==
    LET value == get_first_non_none(values)
    IN  IF value.t # "NoneType" THEN value.t ELSE "float"

\* nested_dtype = type(nested_value) if value is not None else float, under
\* a value that is a list
InferredInner(values) == inner_first_non_none(get_first_non_none(values).inner)

\* py_type_to_dtype and py_type_to_arrow_type know int, float and Decimal
KnownType(t) == t \in {"int", "float", "Decimal"}

MaxScale(values) ==
    LET S == {values[i].s : i \in 1..Len(values)} \cup {0}
    IN  CHOOSE m \in S : \A x \in S : x <= m

\* py_type_to_constructor(dtype_)(name, values, strict): the Series of the
\* type's dtype; a value of another type is refused, but that an int is taken
\* among Decimals, at the largest scale of the values
constructor_err(t, values) ==
    IF \E i \in 1..Len(values) :
          /\ values[i].t \notin {"NoneType", t}
          /\ ~(t = "Decimal" /\ values[i].t = "int")
    THEN "TypeError" ELSE "none"
constructor(t, name, values) ==
    [name |-> name,
     dtype |-> CASE t = "int" -> "Int64"
                 [] t = "Decimal" -> DecimalOf(MaxScale(values))
                 [] OTHER -> "Float64",
     chunks |-> << [i \in 1..Len(values) |->
                      IF values[i].t = "NoneType" THEN Null
                      ELSE IF t = "Decimal"
                      THEN values[i].v * 10^(MaxScale(values) - values[i].s)
                      ELSE values[i].v] >>]

\* sequence_to_pyseries(name, values) without a dtype: no values is Float32;
\* the inner type of a list is looked up with or without pyarrow
infer_err(values) ==
    IF values = <<>> THEN "none"
    ELSE IF InferredType(values) = "list"
    THEN IF ~KnownType(InferredInner(values)) THEN "ValueError" ELSE "none"
    ELSE constructor_err(InferredType(values), values)
infer_NoDefault(name, values) ==
    IF InferredType(values) = "list"
    THEN [name |-> name, dtype |-> "List", chunks |-> << values >>]
    ELSE constructor(InferredType(values), name, values)
infer(name, values) ==
    IF values = <<>> THEN [name |-> name, dtype |-> "Float32", chunks |-> << <<>> >>]
    ELSE IF InferredType(values) = "list"
    THEN [name |-> name, dtype |-> "List", chunks |-> << values >>]
    ELSE constructor(InferredType(values), name, values)

\* Series(name, values, dtype): the dtype is used when it is given
New_(values, dtype) ==
    /\ Idle
    /\ arg' = [kind |-> "sequence", dtype |-> dtype, vals |-> values, item |-> 0]
    /\ LET e == IF dtype # "none" THEN "none" ELSE infer_err(values)
           S == IF dtype # "none"
                THEN [name |-> "name", dtype |-> dtype,
                      chunks |-> << [i \in 1..Len(values) |->
                                       IF values[i].t = "NoneType" THEN Null
                                       ELSE values[i].v] >>]
                ELSE infer("name", values)
       IN  last' = [op |-> "new", recv |-> "a", pre |-> NoSeries, views |-> {},
                    raised |-> e,
                    result |-> IF e = "none" THEN << S >> ELSE <<>>,
                    kind |-> IF dtype # "none" \/ values = <<>> THEN "given"
                             ELSE InferredType(values),
                    kernels |-> IF dtype # "none" \/ values = <<>>
                                   \/ InferredType(values) # "list" THEN "none"
                                ELSE InferredInner(values)]
    /\ UNCHANGED <<heap, ref, borrowed, call, pyarrow, frameVars, idx_type>>

\* Series(name) and Series(name, None, dtype): sequence_to_pyseries(name, [], dtype)
NoValuesNew(dtype) ==
    /\ New_(<<>>, dtype)

\* Series(name, values) and Series(name, values, dtype) of a sequence
SequenceNew(values) ==
    /\ New_(values, "none")
SequenceNewDType(values, dtype) ==
    /\ New_(values, dtype)

FlatValues == {PyNone, PyInt(3), PyDecimal(12, 1), PyDecimal(5, 2)}
Inners == {<<>>, <<In("NoneType", 0)>>, <<In("NoneType", 0), In("int", 3)>>, <<In("int", 3)>>}
NestedValues == {PyNone} \cup {PyList(i) : i \in Inners}

InitInfer ==
    /\ heap = [c \in Cells |-> NoSeries]
    /\ ref = [h \in Handles |-> 1]
    /\ borrowed = [c \in Cells |-> FALSE]
    /\ call = IdleCall
    /\ last = NoOp
    /\ pyarrow \in BOOLEAN
    /\ df = <<>> /\ ret = <<>> /\ dfErr = "none"
    /\ idx_type = "UInt32" /\ arg = NoArg

NextInfer ==
    \/ \E vs \in SeqsUpTo(FlatValues, MaxLen + 1) \cup SeqsUpTo(NestedValues, MaxLen) :
          SequenceNew(vs)
    \/ \E vs \in SeqsUpTo({PyNone, PyInt(3)}, MaxLen) : SequenceNewDType(vs, "Int64")
    \/ \E dt \in {"none", "Int64", "Utf8"} : NoValuesNew(dt)
    \/ Done

SpecInfer == InitInfer /\ [][NextInfer]_vars

Built1 == last.result[1]
IsMix ==
    /\ last.op = "new" /\ arg.kind = "sequence" /\ arg.dtype = "none"
    /\ \E i \in 1..Len(arg.vals) : arg.vals[i].t = "Decimal"
    /\ \A i \in 1..Len(arg.vals) : arg.vals[i].t \in {"Decimal", "int", "NoneType"}
ReadsBack(S, values) ==
    /\ len(S) = Len(values)
    /\ \A i \in 1..Len(values) :
          IF values[i].t = "NoneType" THEN to_list(S)[i] = Null
          ELSE /\ to_list(S)[i] # Null
               /\ to_list(S)[i] * 10^values[i].s = values[i].v * 10^Scale(S.dtype)

\* C21 as stated: a Series built without a dtype from any order of a mix of
\* Decimals, ints and None is Decimal at the largest scale of the values, has
\* one null per None and reads back every value; whichever value comes first.
C21_DecimalMixAnyOrder ==
    IsMix =>
        /\ last.raised = "none"
        /\ Built1.dtype = DecimalOf(MaxScale(arg.vals))
        /\ ReadsBack(Built1, arg.vals)

\* what holds instead: when the first value that is not None is a Decimal
C21_DecimalFirst ==
    (IsMix /\ get_first_non_none(arg.vals).t = "Decimal") =>
        /\ last.raised = "none"
        /\ Built1.dtype = DecimalOf(MaxScale(arg.vals))
        /\ ReadsBack(Built1, arg.vals)

\* C22: a Series of no values, or of an empty sequence, without a dtype is
\* Float32 of length 0; a dtype that is given is the dtype, of no values too.
C22_EmptyIsFloat32 ==
    (last.op = "new" /\ arg.kind = "sequence" /\ arg.vals = <<>>) =>
        /\ last.raised = "none"
        /\ len(Built1) = 0
        /\ Built1.dtype = IF arg.dtype = "none" THEN "Float32" ELSE arg.dtype

C22_Witness ==
    /\ last.op = "new" /\ arg.kind = "sequence" /\ arg.vals = <<>>
    /\ arg.dtype = "none" /\ last.raised = "none"
    /\ Built1.dtype = "Float32" /\ len(Built1) = 0

C22_WitnessDType ==
    /\ last.op = "new" /\ arg.kind = "sequence" /\ arg.vals = <<>>
    /\ arg.dtype = "Utf8" /\ Built1.dtype = "Utf8"

AllNone(values) == \A i \in 1..Len(values) : values[i].t = "NoneType"
Inferring == last.op = "new" /\ arg.kind = "sequence" /\ arg.dtype = "none" /\ arg.vals # <<>>
ElementType == last.kind
InnerType == last.kernels

\* C30 as stated: with nothing but None to look at the element type is float:
\* for a flat sequence of None, and for a nested sequence whose first value
\* that is not None is a list that is empty or holds only None the inner type
\* is float, never the type of None.
C30_NoSampleIsFloat ==
    Inferring =>
        /\ AllNone(arg.vals) => ElementType = "float"
        /\ (get_first_non_none(arg.vals).t = "list"
               /\ AllNone(get_first_non_none(arg.vals).inner))
           => (InnerType = "float" /\ last.raised = "none")

\* the half of C30 that holds: the flat sequence of None
C30_FlatNoneIsFloat ==
    (Inferring /\ AllNone(arg.vals)) =>
        (ElementType = "float" /\ last.raised = "none" /\ Built1.dtype = "Float64")

\* ------------------------------------- the table constructors (SpecTable)
\* the columns argument: None, or the names
NoColumns == [none |-> TRUE, names |-> <<>>]
Columns(names) == [none |-> FALSE, names |-> names]

\* a PySeries on its way into a table, and the cell of the Series it is the
\* inner of (0 when it was built for the table)
Inner(c) == [cell |-> c, s |-> heap[c]]
Fresh(name, vals) ==
    [cell |-> 0, s |-> [name |-> name, dtype |-> "Int64", chunks |-> << vals >>]]
ColumnName(i) == IF i = 0 THEN "column_0" ELSE IF i = 1 THEN "column_1" ELSE "column_2"

\* _handle_columns_arg(data, columns): without data the names make empty
\* columns; else the PySeries are renamed, each where it is; another number
\* of names is a ValueError
handle_columns_arg_err(data, names_arg) ==
    IF names_arg.none \/ data = <<>> \/ Len(data) = Len(names_arg.names) THEN "none"
    ELSE "ValueError"
handle_columns_arg(data, names_arg) ==
    IF names_arg.none THEN data
    ELSE IF data = <<>>
    THEN [i \in 1..Len(names_arg.names) |->
            [cell |-> 0,
             s |-> [name |-> names_arg.names[i], dtype |-> "Float32", chunks |-> << <<>> >>]]]
    ELSE IF Len(data) = Len(names_arg.names)
    THEN [i \in 1..Len(data) |-> [data[i] EXCEPT !.s = py_rename(@, names_arg.names[i])]]
    ELSE data

\* sequence_to_pydf over Series: a Series without a name is renamed column_i
\* in place
NameUnnamed(data) ==
    [i \in 1..Len(data) |->
        IF data[i].s.name = "" THEN [data[i] EXCEPT !.s = py_rename(@, ColumnName(i - 1))]
        ELSE data[i]]

\* PyDataFrame(data_series)
PyDataFrame(data) == [i \in 1..Len(data) |-> [name |-> data[i].s.name, vals |-> to_list(data[i].s)]]

\* what the renames in place leave in the cells
Cell(c, data) ==
    IF \E i \in 1..Len(data) : data[i].cell = c
    THEN data[CHOOSE i \in 1..Len(data) : data[i].cell = c].s
    ELSE heap[c]

\* the constructors that go through _handle_columns_arg: dict_to_pydf,
\* numpy_to_pydf, series_to_pydf and sequence_to_pydf over Series or columns
ViaColumnsArg(kind, data, names_arg) ==
    /\ df = <<>> /\ dfErr = "none" /\ arg.kind = "none"
    /\ LET e == handle_columns_arg_err(data, names_arg)
           d == handle_columns_arg(data, names_arg)
       IN  /\ dfErr' = e
           /\ df' = IF e = "none" THEN PyDataFrame(d) ELSE <<>>
           /\ heap' = [c \in Cells |-> Cell(c, d)]
    /\ ret' = << heap[1], heap[2] >>
    /\ arg' = [kind |-> kind, dtype |-> IF names_arg.none THEN "None" ELSE "columns",
               vals |-> names_arg.names, item |-> Len(data)]
    /\ UNCHANGED <<ref, borrowed, call, last, pyarrow, idx_type>>

DictToPydf(n, names_arg) ==
    /\ ViaColumnsArg("dict", [i \in 1..n |-> Fresh(IF i = 1 THEN "k1" ELSE "k2", <<1, 2>>)],
                     names_arg)
NumpyToPydf(n, names_arg) ==
    /\ ViaColumnsArg("numpy", [i \in 1..n |-> Fresh(ColumnName(i - 1), <<1, 2>>)], names_arg)
SeriesToPydf(h, names_arg) ==
    /\ ViaColumnsArg("series", << Inner(ref[h]) >>, names_arg)
SequenceOfSeriesToPydf(hs, names_arg) ==
    /\ ViaColumnsArg("sequence of series",
                     NameUnnamed([i \in 1..Len(hs) |-> Inner(ref[hs[i]])]), names_arg)

\* PyDataFrame.set_column_names(names) and pa.Table.rename_columns(names):
\* another number of names than columns is refused
set_column_names_err(n, names) == IF Len(names) # n THEN "ShapeMisMatch" ELSE "none"

\* the constructors that name the columns of a finished table: sequence_to_pydf
\* over dicts or rows, arrow_to_pydf (an ArrowInvalid is raised as ValueError)
ViaSetColumnNames(kind, n, names_arg) ==
    /\ df = <<>> /\ dfErr = "none" /\ arg.kind = "none"
    /\ LET e == IF names_arg.none THEN "none"
                ELSE IF set_column_names_err(n, names_arg.names) = "none" THEN "none"
                ELSE IF kind = "arrow" THEN "ValueError" ELSE "ShapeMisMatch"
       IN  /\ dfErr' = e
           /\ df' = IF e # "none" THEN <<>>
                    ELSE [i \in 1..n |->
                            [name |-> IF names_arg.none THEN ColumnName(i - 1)
                                      ELSE names_arg.names[i],
                             vals |-> <<1, 2>>]]
    /\ ret' = << heap[1], heap[2] >>
    /\ arg' = [kind |-> kind, dtype |-> IF names_arg.none THEN "None" ELSE "columns",
               vals |-> names_arg.names, item |-> n]
    /\ UNCHANGED <<heap, ref, borrowed, call, last, pyarrow, idx_type>>

RowsToPydf(n, names_arg) ==
    /\ n > 0
    /\ ViaSetColumnNames("rows", n, names_arg)
ArrowToPydf(n, names_arg) ==
    /\ ViaSetColumnNames("arrow", n, names_arg)

\* Series(name, s): series_to_pyseries renames s in place and hands out its
\* PySeries
SeriesOfSeries(name, h) ==
    /\ df = <<>> /\ dfErr = "none" /\ arg.kind = "none"
    /\ heap' = [heap EXCEPT ![ref[h]] = py_rename(@, name)]
    /\ ret' = << heap[1], heap[2] >>
    /\ arg' = [kind |-> "series of series", dtype |-> "None", vals |-> << name >>, item |-> 1]
    /\ UNCHANGED <<ref, borrowed, call, last, pyarrow, df, dfErr, idx_type>>

\* the table is dropped; the Series stay as they are
TableDone ==
    /\ arg.kind # "none"
    /\ arg' = NoArg
    /\ df' = <<>> /\ dfErr' = "none" /\ ret' = <<>>
    /\ UNCHANGED <<heap, ref, borrowed, call, last, pyarrow, idx_type>>

ColumnsArgs ==
    {NoColumns} \cup {Columns(n) : n \in {<<>>, <<"p">>, <<"q", "p">>, <<"p", "q", "r">>}}

InitTable ==
    /\ \E na \in {"", "x"}, nb \in {"", "y"} :
          heap = [c \in Cells |->
                    [name |-> IF c = 1 THEN na ELSE nb, dtype |-> "Int64",
                     chunks |-> << <<c, 7>> >>]]
    /\ ref = [h \in Handles |-> IF h = "a" THEN 1 ELSE 2]
    /\ borrowed = [c \in Cells |-> FALSE]
    /\ call = IdleCall
    /\ last = NoOp
    /\ pyarrow = TRUE
    /\ df = <<>> /\ ret = <<>> /\ dfErr = "none"
    /\ idx_type = "UInt32" /\ arg = NoArg

NextTable ==
    \/ \E n \in 0..MaxCols, c \in ColumnsArgs : DictToPydf(n, c)
    \/ \E n \in 0..MaxCols, c \in ColumnsArgs : NumpyToPydf(n, c)
    \/ \E h \in Handles, c \in ColumnsArgs : SeriesToPydf(h, c)
    \/ \E hs \in {<<>>, <<"a">>, <<"a", "b">>, <<"b", "a">>}, c \in ColumnsArgs :
          SequenceOfSeriesToPydf(hs, c)
    \/ \E n \in 0..MaxCols, c \in ColumnsArgs : RowsToPydf(n, c)
    \/ \E n \in 0..MaxCols, c \in ColumnsArgs : ArrowToPydf(n, c)
    \/ \E name \in {"p", "x"}, h \in Handles : SeriesOfSeries(name, h)
    \/ TableDone

SpecTable == InitTable /\ [][NextTable]_vars

TableBuilt == arg.kind \notin {"none", "series of series"}
WithColumns == TableBuilt /\ arg.dtype = "columns"

\* C23 as stated: in every table constructor that takes columns, names of
\* another number than the data columns raise ValueError and make no table;
\* a table that is built has the names of columns, in order.
C23_ColumnsMismatchRaises ==
    WithColumns =>
        IF Len(arg.vals) # arg.item
        THEN dfErr = "ValueError" /\ df = <<>>
        ELSE dfErr = "none" /\ columns(df) = arg.vals

\* what holds instead: for data of at least one column through
\* _handle_columns_arg or an Arrow table; a table that is built has the names
C23_NonEmptyDataMismatchRaises ==
    WithColumns =>
        /\ (Len(arg.vals) # arg.item /\ arg.item > 0 /\ arg.kind \notin {"rows"})
           => (dfErr = "ValueError" /\ df = <<>>)
        /\ dfErr = "none" => columns(df) = arg.vals

PreCell(c) == ret[c]
\* C26 as stated: Series(name, s), and a table built from Series with or
\* without columns, leave the name and the values of every Series they are
\* given unchanged.
C26_InputsUnchanged ==
    arg.kind \in {"series", "sequence of series", "series of series"} =>
        \A c \in Cells : heap[c] = PreCell(c)

\* what holds instead: the values are unchanged, and the names are when no
\* columns are given and every Series has a name
C26_ValuesUnchanged ==
    arg.kind \in {"series", "sequence of series", "series of series"} =>
        /\ \A c \in Cells : to_list(heap[c]) = to_list(PreCell(c))
        /\ (arg.kind # "series of series" /\ arg.dtype = "None"
               /\ \A c \in Cells : PreCell(c).name # "")
           => \A c \in Cells : heap[c] = PreCell(c)

\* ------------------------------- DataFrame.__setitem__ on cells (SpecFrame)
CellWritten(rows, c, value) ==
    df' = [df EXCEPT ![c + 1] = SetRows(df[c + 1], rows, value)]

\* C27 as stated: df[rows, c] = value changes only the selected rows of the
\* selected column: for a column position c the changed Series is stored at
\* position c, and every other column keeps its position, name and values.
C27_SetItemCellInPlace ==
    [][\A rows \in SUBSET (0..(MaxRows - 1)), c \in 0..MaxCols, v \in CellValues :
          SetItemCellIdx(rows, c, v) => CellWritten(rows, c, v)]_vars

\* what holds instead: for the first column, and for a column given by name
C27_SetItemCellFirstOrNamed ==
    [][/\ \A rows \in SUBSET (0..(MaxRows - 1)), v \in CellValues :
             SetItemCellIdx(rows, 0, v) => CellWritten(rows, 0, v)
       /\ \A rows \in SUBSET (0..(MaxRows - 1)), n \in ColNames, v \in CellValues :
             SetItemCellName(rows, n, v) => CellWritten(rows, FindIdx(df, n, 1) - 1, v)]_vars

\* -------------------------------- DataFrame.__getitem__ of rows (SpecFrame)
\* C24 as stated: df[start:stop:step] with a step that is given and is not 1,
\* a negative one too, raises ValueError; the rows of step 1 are never returned.
C24_SliceStepRaises ==
    [][\A start \in Bounds, stop \in Bounds, step \in Steps :
          (GetItemSlice(Slice(start, stop, step)) /\ ~step.none /\ step.v # 1)
          => (dfErr' = "ValueError" /\ ret' = <<>>)]_vars

\* what holds instead: the step is not looked at
C24_SliceStepIgnored ==
    [][\A start \in Bounds, stop \in Bounds, step \in Steps :
          GetItemSlice(Slice(start, stop, step))
          => (dfErr' # "ValueError"
              /\ (dfErr' = "none" =>
                    ret' = getitem_slice(df, Slice(start, stop, NoneV))))]_vars

\* ------------------------- the life of a raw view inside a call (SpecView)
\* the call in progress: where it is, the cell of the Series the view was
\* taken from (0 before there is a view), and what the read found
Step(op, h, pc, origin, read) ==
    [op |-> op, recv |-> h, pre |-> heap[ref[h]], views |-> {}, raised |-> "none",
     result |-> <<>>, pc |-> pc, origin |-> origin, read |-> read]
TempCell == 2

\* Series.std(ddof) and Series.var(ddof), up to self.drop_nulls(): None when
\* not numeric, an expression when ddof = 1, else the Series without nulls is
\* made; nothing but the running expression refers to it
StdVarBegin(h, f, ddof) ==
    /\ Idle
    /\ ref[h] # TempCell
    /\ LET s == heap[ref[h]]
       IN  IF ~is_numeric(s) \/ ddof = 1
           THEN /\ last' = Step(f, h, "returned", 0, "none")
                /\ heap' = heap
           ELSE /\ last' = Step(f, h, "temp", 0, "none")
                /\ heap' = [heap EXCEPT ![TempCell] = py_drop_nulls(s)]
    /\ arg' = [NoArg EXCEPT !.kind = f, !.item = ddof]
    /\ UNCHANGED <<ref, borrowed, call, pyarrow, frameVars, idx_type>>

\* .view() of the Series without nulls: the array points into its buffer and
\* holds no reference to it
TempView ==
    /\ last.op # "none" /\ last.pc = "temp"
    /\ last' = [last EXCEPT !.pc = "viewed", !.origin = TempCell,
                            !.views = ViewsOf(heap[TempCell], FALSE, last.op),
                            !.raised = ViewErr(heap[TempCell], FALSE)]
    /\ UNCHANGED <<heap, ref, borrowed, call, pyarrow, frameVars, argVars>>

\* the Series without nulls is released: the last reference to it, that of
\* the bound method view, is gone when view() has returned
ReleaseTemp ==
    /\ last.op # "none" /\ last.pc \in {"viewed", "read"}
    /\ last.origin = TempCell
    /\ heap[TempCell] # NoSeries
    /\ heap' = [heap EXCEPT ![TempCell] = NoSeries]
    /\ UNCHANGED <<ref, borrowed, call, last, pyarrow, frameVars, argVars>>

\* Series.to_numpy() on the path of the view: self.view(ignore_nulls=True);
\* the caller holds self
ToNumpyView(h) ==
    /\ Idle
    /\ ref[h] # TempCell
    /\ LET s == heap[ref[h]]
       IN  IF (pyarrow /\ ~is_datelike(s)) \/ has_validity(s) \/ ViewErr(s, TRUE) # "none"
           THEN last' = Step("to_numpy", h, "returned", 0, "none")
           ELSE last' = [Step("to_numpy", h, "viewed", ref[h], "none")
                         EXCEPT !.views = ViewsOf(s, TRUE, "to_numpy")]
    /\ arg' = [NoArg EXCEPT !.kind = "to_numpy"]
    /\ UNCHANGED <<heap, ref, borrowed, call, pyarrow, frameVars, idx_type>>

\* numpy reads the array: np.std(array, ddof), np.var(array, ddof), or the
\* conversion of to_numpy
NumpyRead ==
    /\ last.op # "none" /\ last.pc = "viewed"
    /\ last.raised = "none"
    /\ last' = [last EXCEPT !.pc = "read",
                            !.read = IF heap[last.origin] = NoSeries THEN "released"
                                     ELSE "alive"]
    /\ UNCHANGED <<heap, ref, borrowed, call, pyarrow, frameVars, argVars>>

\* the call returns
ViewReturn ==
    /\ last.op # "none"
    /\ last.pc \in {"read", "returned"} \/ (last.pc = "viewed" /\ last.raised # "none")
    /\ heap[TempCell] = NoSeries
    /\ last' = NoOp
    /\ arg' = NoArg
    /\ UNCHANGED <<heap, ref, borrowed, call, pyarrow, frameVars, idx_type>>

ViewChunks ==
    {<< v >> : v \in SeqsUpTo({1, 2, Null}, MaxLen)} \cup {<< <<2>>, <<1>> >>, << <<Null>>, <<1>> >>}

InitView ==
    /\ \E ch \in ViewChunks, dt \in {"Int64", "Date", "Utf8"} :
          heap = [c \in Cells |->
                    IF c = 1 THEN [name |-> "x", dtype |-> dt, chunks |-> ch]
                    ELSE NoSeries]
    /\ ref = [h \in Handles |-> 1]
    /\ borrowed = [c \in Cells |-> FALSE]
    /\ call = IdleCall
    /\ last = NoOp
    /\ pyarrow \in BOOLEAN
    /\ df = <<>> /\ ret = <<>> /\ dfErr = "none"
    /\ idx_type = "UInt32" /\ arg = NoArg

NextView ==
    \/ \E f \in {"std", "var"}, ddof \in 0..2 : StdVarBegin("a", f, ddof)
    \/ TempView
    \/ ReleaseTemp
    \/ ToNumpyView("a")
    \/ NumpyRead
    \/ ViewReturn

SpecView == InitView /\ [][NextView]_vars

\* C25 as stated: nothing reads through a raw view after the Series it was
\* taken from is released or changed; in std and var with ddof other than 1
\* the Series made by drop_nulls() is alive when numpy reads its view.
C25_ViewOriginAlive ==
    (last.op # "none" /\ last.pc = "read") => last.read = "alive"

\* what holds instead: the Series the caller holds is alive when it is read
C25_HeldOriginAlive ==
    (last.op # "none" /\ last.pc = "read" /\ last.origin # TempCell)
    => (last.read = "alive" /\ heap[last.origin] = last.pre)

\* ------------------------------------ Series.__setitem__ (SpecSetAtIdx)
Designated ==
    IF arg.kind = "series" /\ arg.dtype = "Boolean" THEN MaskIdxs(arg.vals)
    ELSE Range(arg.vals)
SetItemWritten ==
    \A p \in 1..len(Recv) :
        to_list(Now)[p] = IF (p - 1) \in Designated THEN arg.item ELSE to_list(Recv)[p]

\* C28 as stated: s[key] = value writes value at the positions of key or
\* raises an error; for no key, an Int32 or Int64 Series of positions or a
\* negative int among them, does it return with the Series as it was.
C28_SetItemWritesOrRaises ==
    last.op = "setitem" =>
        IF last.raised = "none" THEN SetItemWritten ELSE Now = Recv

\* what holds instead: for every key but a Series of another dtype than
\* Boolean, UInt32 and UInt64
C28_SetItemKnownKeys ==
    (last.op = "setitem"
        /\ ~(arg.kind = "series" /\ arg.dtype \notin {"Boolean", "UInt32", "UInt64"}))
    => IF last.raised = "none" THEN SetItemWritten ELSE Now = Recv

\* --------------------------------------- by_dtype, by_name (SpecSelectors)
Invalid(fn, args) ==
    \E it \in AllItems(args) : it.is # (IF fn = "by_dtype" THEN "dtype" ELSE "str")

\* C29 as stated: by_dtype and by_name check every argument: one that is
\* neither an item (a dtype, a string) nor a collection of items raises
\* TypeError and makes no selector; none is dropped in silence.
C29_InvalidArgumentRaises ==
    (last.op \in {"by_dtype", "by_name"} /\ Invalid(last.op, last.result))
    => (last.raised = "TypeError" /\ ret = <<>>)

\* what holds instead: by_dtype, and by_name for what is inside a collection
C29_InvalidDTypeRaises ==
    /\ (last.op = "by_dtype" /\ Invalid(last.op, last.result))
       => (last.raised = "TypeError" /\ ret = <<>>)
    /\ (last.op = "by_name"
           /\ \E i \in 1..Len(last.result) :
                 last.result[i].coll /\ Invalid("by_name", << last.result[i] >>))
       => (last.raised = "TypeError" /\ ret = <<>>)

====
